---- MODULE Spec2Model ----
(***************************************************************************)
(* State-machine model of the dieselnoi-course backend (Django / DRF):     *)
(* entitlement resolution for lesson video, progress tracking, the badge   *)
(* engine and the referral conversion handler.                             *)
(*                                                                         *)
(* The database tables are the state.  Every HTTP handler, webhook handler *)
(* and signal receiver is an action; a handler that only reads stores its  *)
(* response in the variable `response`.                                    *)
(***************************************************************************)
EXTENDS Integers, Sequences, FiniteSets, TLC

NULL == "null"

\* An optional date (a nullable DateTimeField): None, or Some(t).
None == <<>>
Some(t) == <<t>>

--------------------------------------------------------------------------
(* Bounds of the model *)

\* The clock runs over 0..MaxTime.
MaxTime == 1
\* The unlock_date of the drip lessons of the catalogue.
DripDate == 1
\* watch_time_seconds reported by a client ranges over 0..MaxWatch.
MaxWatch == 1
\* The Referral table holds at most MaxReferrals rows.
MaxReferrals == 2
\* A user has at most MaxComments comments.
MaxComments == 1

--------------------------------------------------------------------------
(* The catalogue: users, courses and lessons *)

Users == {"u1", "u2"}
\* The rows the User table can hold: the users and one more visitor who
\* can register.
Accounts == Users \cup {"u3"}
Anonymous == "anon"
Requesters == Users \cup {Anonymous}

Courses == {"c1", "c2", "c3"}
Lessons == {"l1", "l2", "l3"}

\* Lesson rows.  l1 is a paid drip lesson, l2 a free preview that also has
\* an unlock_date, l3 a paid lesson of another course; course c3 has no
\* lesson.
Lesson ==
  [l \in Lessons |->
     CASE l = "l1" -> [course |-> "c1", is_free_preview |-> FALSE,
                       unlock_date |-> Some(DripDate),
                       video_url |-> "url-l1", mux_playback_id |-> "pb-l1"]
       [] l = "l2" -> [course |-> "c1", is_free_preview |-> TRUE,
                       unlock_date |-> Some(DripDate),
                       video_url |-> NULL, mux_playback_id |-> "pb-l2"]
       [] l = "l3" -> [course |-> "c2", is_free_preview |-> FALSE,
                       unlock_date |-> None,
                       video_url |-> NULL, mux_playback_id |-> "pb-l3"]]

\* course.lessons
LessonsOf(c) == {l \in Lessons : Lesson[l].course = c}

\* The courses that have lessons, and the lessons the drip mechanism can
\* lock (an unlock_date and no free preview): the ones a LessonUnlock row
\* makes a difference for.
LessonCourses == {c \in Courses : LessonsOf(c) # {}}
DripLessons ==
  {l \in Lessons : Lesson[l].unlock_date # None /\ ~Lesson[l].is_free_preview}

\* expiration_seconds passed by the lesson serializer (2 hours)
ExpirationSeconds == 7200

\* Referral program: the referral code of each user (created with the
\* user), client addresses and e-mail domains.
CodeOf(u) == "DN-" \o u
Ips == {"ip1", "ip2"}
disposable_domains ==
  {"tempmail.com", "guerrillamail.com", "mailinator.com", "10minutemail.com"}
Domains == {"example.com", "mailinator.com"}

\* calculate_fraud_score: the weights, the cap and the rapid-signup limit
SameIpWeight == 30
RapidSignupWeight == 25
DisposableWeight == 40
ScoreCap == 100
RapidSignupLimit == 5
\* ReferralFraudCheck.auto_review thresholds
ApproveBelow == 20
RejectAbove == 50
\* track_referral_conversion: the credit and its lifetime in days
CreditAmount == 10
CreditDays == 365
\* check_course_completion: the lifetime of the cache key in days
CacheDays == 7
\* recently_watched: the slice [:10]
RecentLimit == 10

--------------------------------------------------------------------------
(* State *)

VARIABLES
  subs,        \* Subscription table: (user, course) -> status or "none"
  unlocks,     \* LessonUnlock table: set of <<user, lesson>>
  now,         \* timezone.now(), in days
  signingKey,  \* settings.MUX_SIGNING_KEY_ID / _PRIVATE are configured
  published,   \* the courses with is_published = True
  response,    \* the response of the last request
  progress,    \* LessonProgress table: a set of rows
  comments,    \* Comment table: user -> number of comment rows of the user
  userBadges,  \* UserBadge table: a set of rows
  mailCache,   \* cache entries course_complete_email_<user>_<course>
  mailsSent,   \* (user, course) -> course-completion mails sent
  email,       \* User table: user -> e-mail domain, NULL when not registered
  referrals,   \* Referral table: a sequence of rows, the id is the index
  fraudChecks, \* ReferralFraudCheck table: a set of rows
  credits,     \* ReferralCredit table: a set of rows
  jobs,        \* (user, course) -> the checkout request in flight
  cache,       \* login cache: key -> value and remaining seconds to live
  session,     \* client -> the session data of the client's cookie
  totp,        \* user -> state of the user's TOTPDevice
  staticTokens, \* user -> StaticToken rows of the user's backup device
  reviews,     \* CourseReview table: a set of rows
  ratingCache, \* course -> Course.total_reviews and Course.average_rating
  workers      \* worker -> the mark_complete request it is processing

accessVars == <<subs, unlocks, now, signingKey, published>>
progressVars == <<progress, comments, userBadges, mailCache, mailsSent>>
referralVars == <<email, referrals, fraudChecks, credits, jobs>>
authVars == <<cache, session, totp, staticTokens>>
reviewVars == <<reviews, ratingCache>>
workerVars == <<workers>>
otherVars == <<authVars, reviewVars, workerVars>>

vars == <<accessVars, response, progressVars, referralVars, otherVars>>

NoResponse == [op |-> "none"]
Idle == [pc |-> "idle"]

\* Login cache keys: failed attempts per username and per IP, lockout per
\* username; the browser sessions; an entry with ttl 0 is absent.
Clients == {"s1"}
Workers == {"w1", "w2"}
CacheKeys == ({"login_attempts_user", "account_lockout"} \X Users)
               \cup ({"login_attempts_ip"} \X Ips)
NoEntry == [value |-> 0, ttl |-> 0]
EmptySession ==
  [user |-> NULL, pending_2fa_user_id |-> NULL, pending_2fa_username |-> NULL]

\* The User table in which the accounts S are registered.
Registered(S) ==
  [u \in Accounts |-> IF u \in S THEN "example.com" ELSE NULL]

\* Nobody has tried to log in, no session, no 2FA device.
InitSessions ==
  /\ session = [c \in Clients |-> EmptySession]
  /\ staticTokens = [u \in Users |-> {}]
  /\ reviews = {}
  /\ ratingCache = [c \in Courses |->
                      [total_reviews |-> 0, average_rating |-> None]]
  /\ workers = [w \in Workers |-> Idle]

InitOther ==
  /\ cache = [k \in CacheKeys |-> NoEntry]
  /\ totp = [u \in Users |-> "none"]
  /\ InitSessions

\* The tables before the first request: the catalogue is published, no
\* subscription, progress, badge, referral or credit exists.
InitDatabase ==
  /\ subs = [p \in Users \X Courses |-> "none"]
  /\ unlocks = {}
  /\ now = 0
  /\ response = NoResponse
  /\ progress = {}
  /\ comments = [u \in Users |-> 0]
  /\ userBadges = {}
  /\ mailCache = {}
  /\ mailsSent = [p \in Users \X Courses |-> 0]
  /\ referrals = <<>>
  /\ fraudChecks = {}
  /\ credits = {}
  /\ jobs = [p \in Users \X Courses |-> Idle]

InitRows ==
  /\ InitDatabase
  /\ InitOther

\* Every user of the catalogue is registered; the deployment has a signing
\* key or has none.

InitTables ==
  /\ InitRows
  /\ published = LessonCourses

Init ==
  /\ InitTables
  /\ signingKey \in BOOLEAN
  /\ email = Registered(Users)

--------------------------------------------------------------------------
(* Video host helpers (mux_utils.py) *)

\* generate_mux_jwt_token: None without a signing key, else a token over
\* the playback id and the expiry.
generate_mux_jwt_token(playback_id, expiration_seconds) ==
  IF ~signingKey THEN NULL
  ELSE "jwt." \o playback_id \o "." \o ToString(now + expiration_seconds)

\* get_signed_playback_id returns the playback id it is given.
get_signed_playback_id(playback_id, expiration_seconds) == playback_id

\* get_playback_token
get_playback_token(playback_id, expiration_seconds) ==
  generate_mux_jwt_token(playback_id, expiration_seconds)

--------------------------------------------------------------------------
(* Entitlement: the permission class and the lesson serializer *)

\* Faulty variants of the subscription test: past_due counts as a live
\* subscription; a live subscription to any course counts.
HasSubscriptionOrPastDue(u, c) ==
  subs[<<u, c>>] \in {"active", "trialing", "past_due"}
HasAnySubscription(u, c) ==
  \E x \in Courses : subs[<<u, x>>] \in {"active", "trialing"}

\* user.subscriptions.filter(course=c, status__in=['active','trialing']).exists()
HasSubscription(u, c) == subs[<<u, c>>] \in {"active", "trialing"}

\* Faulty variants of the drip check: without the free-preview exemption;
\* without the LessonUnlock override.
locked_ignoring_preview(l, u) ==
  IF Lesson[l].unlock_date = None THEN FALSE
  ELSE IF <<u, l>> \in unlocks THEN FALSE
  ELSE Lesson[l].unlock_date[1] > now
locked_ignoring_unlocks(l, u) ==
  IF Lesson[l].is_free_preview THEN FALSE
  ELSE IF Lesson[l].unlock_date = None THEN FALSE
  ELSE Lesson[l].unlock_date[1] > now

\* LessonSerializer._is_lesson_locked
_is_lesson_locked(l, u) ==
  IF Lesson[l].is_free_preview THEN FALSE
  ELSE IF Lesson[l].unlock_date = None THEN FALSE
  ELSE IF <<u, l>> \in unlocks THEN FALSE
  ELSE Lesson[l].unlock_date[1] > now

\* LessonSerializer.get_is_locked
get_is_locked(r, l) ==
  IF r = Anonymous THEN FALSE ELSE _is_lesson_locked(l, r)

\* LessonSerializer.to_representation
to_representation(r, l) ==
  LET data == [lesson |-> l,
               video_url |-> Lesson[l].video_url,
               mux_playback_id |-> Lesson[l].mux_playback_id,
               is_locked |-> get_is_locked(r, l)]
      hidden == [data EXCEPT !.video_url = NULL, !.mux_playback_id = NULL]
      signed == [data EXCEPT !.mux_playback_id =
                   get_signed_playback_id(Lesson[l].mux_playback_id,
                                          ExpirationSeconds)]
  IN  IF r # Anonymous /\ data.is_locked THEN hidden
      ELSE IF r # Anonymous
        THEN IF ~HasSubscription(r, Lesson[l].course)
                  /\ ~Lesson[l].is_free_preview THEN hidden
             ELSE IF Lesson[l].mux_playback_id # NULL THEN signed
             ELSE data
      ELSE IF ~Lesson[l].is_free_preview THEN hidden
      ELSE IF Lesson[l].mux_playback_id # NULL THEN signed
      ELSE data

\* IsSubscriberOrReadOnly.has_object_permission, on a Lesson
has_object_permission(r, l) ==
  IF Lesson[l].is_free_preview THEN TRUE
  ELSE HasSubscription(r, Lesson[l].course)

--------------------------------------------------------------------------
(* Referral program: tables and queries *)

Min(a, b) == IF a <= b THEN a ELSE b

\* The user a referral code belongs to (ReferralCode.objects.get(code=..)),
\* NULL for a code no registered user has.
OwnerOf(code) ==
  IF \E u \in Accounts : email[u] # NULL /\ CodeOf(u) = code
    THEN CHOOSE u \in Accounts : email[u] # NULL /\ CodeOf(u) = code
  ELSE NULL

\* A faulty variant of the selection: converted referrals are selected too.
OpenOrConverted(u) ==
  {i \in DOMAIN referrals :
     referrals[i].referee = u
       /\ referrals[i].status \in {"clicked", "signed_up", "converted"}}

\* Referral.objects.filter(referee=u, status__in=['clicked','signed_up'])
OpenReferrals(u) ==
  {i \in DOMAIN referrals :
     referrals[i].referee = u
       /\ referrals[i].status \in {"clicked", "signed_up"}}

\* Referral.objects.filter(code_used=code, referee__isnull=True,
\* status='clicked')
UnattributedClicks(code) ==
  {i \in DOMAIN referrals :
     referrals[i].code_used = code /\ referrals[i].referee = NULL
       /\ referrals[i].status = "clicked"}

\* .first() under Meta.ordering = ['-created_at']: a row with the greatest
\* created_at; the database picks among rows that tie.
Newest(ids) ==
  {i \in ids : \A j \in ids : referrals[j].created_at <= referrals[i].created_at}

\* The unique index of the OneToOneField ReferralFraudCheck.referral
FraudCheckUnique(rid) == ~\E f \in fraudChecks : f.referral = rid

\* A faulty variant: ReferralCredit.referral without a unique index.
NoCreditIndex(rid) == TRUE

\* The unique index of the OneToOneField ReferralCredit.referral
CreditUnique(rid) == ~\E x \in credits : x.referral = rid

\* calculate_fraud_score: the three signals of a referral instance
\* A faulty variant of same_ip_count: without exclude(id=referral.id).
same_ip_count_with_self(id, ref) ==
  Cardinality({j \in DOMAIN referrals :
     CodeOf(referrals[j].referrer) = ref.code_used
       /\ referrals[j].ip_address = ref.ip_address})

same_ip_count(id, ref) ==
  Cardinality({j \in DOMAIN referrals :
     CodeOf(referrals[j].referrer) = ref.code_used
       /\ referrals[j].ip_address = ref.ip_address /\ j # id})

recent_referrals(ref) ==
  Cardinality({j \in DOMAIN referrals :
     referrals[j].referrer = ref.referrer
       /\ referrals[j].created_at >= now - 1})

SameIpSignal(id, ref) == ref.ip_address # NULL /\ same_ip_count(id, ref) > 0
RapidSignal(ref) == recent_referrals(ref) > RapidSignupLimit
DisposableSignal(ref) ==
  ref.referee # NULL /\ email[ref.referee] \in disposable_domains

\* calculate_fraud_score: the score for the three signals
FraudScore(same_ip, rapid_signup, disposable_email) ==
  Min((IF same_ip THEN SameIpWeight ELSE 0)
        + (IF rapid_signup THEN RapidSignupWeight ELSE 0)
        + (IF disposable_email THEN DisposableWeight ELSE 0),
      ScoreCap)

calculate_fraud_score(id, ref) ==
  FraudScore(SameIpSignal(id, ref), RapidSignal(ref), DisposableSignal(ref))

\* A faulty variant of auto_review: every score up to the rejection
\* threshold is approved.
lenient_review(score) ==
  IF score <= RejectAbove THEN "approved" ELSE "rejected"

\* ReferralFraudCheck.auto_review: the status for a score
auto_review(score) ==
  IF score < ApproveBelow THEN "approved"
  ELSE IF score > RejectAbove THEN "rejected"
  ELSE "pending"

--------------------------------------------------------------------------
(* Referral program: click tracking and registration *)

\* ReferralViewSet.track_click: a clicked row for a valid code.
TrackClick(code, ip) ==
  /\ Len(referrals) < MaxReferrals
  /\ IF OwnerOf(code) = NULL
       THEN /\ referrals' = referrals
            /\ response' = [op |-> "track_click", status |-> 404]
       ELSE /\ referrals' = Append(referrals,
                 [referrer |-> OwnerOf(code), referee |-> NULL,
                  code_used |-> code, status |-> "clicked",
                  ip_address |-> ip, created_at |-> now,
                  first_subscription_at |-> None])
            /\ response' = [op |-> "track_click", status |-> 200]
  /\ UNCHANGED <<otherVars, accessVars, progressVars, email, fraudChecks, credits, jobs>>

\* RegisterView.post, the referral part: the new user becomes the referee
\* of an un-attributed clicked row of the code, or of a new signed_up row;
\* an invalid code is ignored.
Register(u, dom, code, ip) ==
  /\ email[u] = NULL
  /\ email' = [email EXCEPT ![u] = dom]
  /\ IF code = NULL \/ OwnerOf(code) = NULL
       THEN referrals' = referrals
     ELSE IF UnattributedClicks(code) # {}
       THEN \E i \in Newest(UnattributedClicks(code)) :
              referrals' = [referrals EXCEPT ![i].referee = u,
                                             ![i].status = "signed_up"]
     ELSE /\ Len(referrals) < MaxReferrals
          /\ referrals' = Append(referrals,
                [referrer |-> OwnerOf(code), referee |-> u,
                 code_used |-> code, status |-> "signed_up",
                 ip_address |-> ip, created_at |-> now,
                 first_subscription_at |-> None])
  /\ response' = [op |-> "register", who |-> u, status |-> 201,
                  referral_code |-> code]
  /\ UNCHANGED <<otherVars, accessVars, progressVars, fraudChecks, credits, jobs>>

--------------------------------------------------------------------------
(* Checkout: the Subscription row and the post_save receiver              *)
(* track_referral_conversion, one database statement per step.  jobs[k]   *)
(* is the request that handles the checkout of k = <<user, course>>: its  *)
(* position and its local objects (the Referral and ReferralFraudCheck    *)
(* instances it loaded).                                                   *)

Job(k) == jobs[k]

SetJob(k, j) ==
  /\ jobs' = [jobs EXCEPT ![k] = j]
  /\ response' = response

\* _handle_checkout_session_completed: Subscription.update_or_create; the
\* receiver runs only for a created row with status active.
CheckoutStart(k) ==
  /\ email[k[1]] # NULL
  /\ Job(k).pc = "idle"
  /\ subs' = [subs EXCEPT ![k] = "active"]
  /\ SetJob(k, [pc |-> IF subs[k] = "none" THEN "select" ELSE "done"])
  /\ UNCHANGED <<otherVars, unlocks, now, signingKey, published, progressVars,
                 email, referrals, fraudChecks, credits>>

\* referral = Referral.objects.filter(...).first()
SelectReferral(k) ==
  /\ Job(k).pc = "select"
  /\ IF OpenReferrals(k[1]) = {}
       THEN SetJob(k, [pc |-> "done"])
       ELSE \E i \in Newest(OpenReferrals(k[1])) :
              SetJob(k, [pc |-> "convert", id |-> i, ref |-> referrals[i]])
  /\ UNCHANGED <<otherVars, accessVars, progressVars, email, referrals, fraudChecks,
                 credits>>

\* referral.status = 'converted'; referral.save(): the save writes every
\* field of the loaded instance.
SaveConverted(k) ==
  /\ Job(k).pc = "convert"
  /\ LET ref == [Job(k).ref EXCEPT !.status = "converted",
                                   !.first_subscription_at = Some(now)]
     IN  /\ referrals' = [referrals EXCEPT ![Job(k).id] = ref]
         /\ SetJob(k, [Job(k) EXCEPT !.pc = "fraud_get", !.ref = ref])
  /\ UNCHANGED <<otherVars, accessVars, progressVars, email, fraudChecks, credits>>

\* ReferralFraudCheck.objects.get_or_create, the get
FraudGet(k) ==
  /\ Job(k).pc = "fraud_get"
  /\ IF \E f \in fraudChecks : f.referral = Job(k).id
       THEN \E f \in fraudChecks :
              /\ f.referral = Job(k).id
              /\ SetJob(k, [pc |-> "check", id |-> Job(k).id,
                            ref |-> Job(k).ref, fc |-> f])
       ELSE SetJob(k, [Job(k) EXCEPT !.pc = "fraud_create"])
  /\ UNCHANGED <<otherVars, accessVars, progressVars, email, referrals, fraudChecks,
                 credits>>

\* get_or_create, the create: the insert fails on the unique index when a
\* concurrent request has inserted the row, and the row is then read.
FraudCreate(k) ==
  /\ Job(k).pc = "fraud_create"
  /\ IF FraudCheckUnique(Job(k).id)
       THEN LET f == [referral |-> Job(k).id, same_ip |-> FALSE,
                      rapid_signup |-> FALSE, disposable_email |-> FALSE,
                      fraud_score |-> 0, status |-> "pending",
                      reviewed_by |-> NULL, reviewed_at |-> None]
            IN  /\ fraudChecks' = fraudChecks \cup {f}
                /\ SetJob(k, [pc |-> "score", id |-> Job(k).id,
                              ref |-> Job(k).ref, fc |-> f])
       ELSE /\ fraudChecks' = fraudChecks
            /\ \E f \in fraudChecks :
                 /\ f.referral = Job(k).id
                 /\ SetJob(k, [pc |-> "check", id |-> Job(k).id,
                               ref |-> Job(k).ref, fc |-> f])
  /\ UNCHANGED <<otherVars, accessVars, progressVars, email, referrals, credits>>

\* score = calculate_fraud_score(referral): every signal that fires loads
\* the fraud check row, sets its flag and saves it.
ScoreReferral(k) ==
  /\ Job(k).pc = "score"
  /\ LET id == Job(k).id
         ref == Job(k).ref
     IN  /\ fraudChecks' =
               {IF f.referral = id
                  THEN [f EXCEPT
                          !.same_ip = f.same_ip \/ SameIpSignal(id, ref),
                          !.rapid_signup = f.rapid_signup \/ RapidSignal(ref),
                          !.disposable_email =
                             f.disposable_email \/ DisposableSignal(ref)]
                  ELSE f : f \in fraudChecks}
         /\ SetJob(k, [pc |-> "review", id |-> id, ref |-> ref,
                       fc |-> Job(k).fc,
                       score |-> calculate_fraud_score(id, ref)])
  /\ UNCHANGED <<otherVars, accessVars, progressVars, email, referrals, credits>>

\* fraud_check.fraud_score = score; fraud_check.auto_review(): the save
\* writes every field of the instance get_or_create returned.
AutoReview(k) ==
  /\ Job(k).pc = "review"
  /\ LET f == [Job(k).fc EXCEPT !.fraud_score = Job(k).score,
                                !.status = auto_review(Job(k).score)]
     IN  /\ fraudChecks' =
               {x \in fraudChecks : x.referral # Job(k).id} \cup {f}
         /\ SetJob(k, [pc |-> "check", id |-> Job(k).id,
                       ref |-> Job(k).ref, fc |-> f])
  /\ UNCHANGED <<otherVars, accessVars, progressVars, email, referrals, credits>>

\* A faulty variant of the status test: the credit is issued whatever the
\* status of the fraud check.
CheckIgnoringStatus(k) ==
  /\ Job(k).pc = "check"
  /\ IF \E x \in credits : x.referral = Job(k).id
       THEN SetJob(k, [Job(k) EXCEPT !.pc = "reward"])
       ELSE SetJob(k, [Job(k) EXCEPT !.pc = "credit_create"])
  /\ UNCHANGED <<otherVars, accessVars, progressVars, email, referrals, fraudChecks,
                 credits>>

\* if fraud_check.status == 'approved', then ReferralCredit get_or_create,
\* the get
CheckApproved(k) ==
  /\ Job(k).pc = "check"
  /\ IF Job(k).fc.status # "approved"
       THEN SetJob(k, [pc |-> "done"])
     ELSE IF \E x \in credits : x.referral = Job(k).id
       THEN SetJob(k, [Job(k) EXCEPT !.pc = "reward"])
     ELSE SetJob(k, [Job(k) EXCEPT !.pc = "credit_create"])
  /\ UNCHANGED <<otherVars, accessVars, progressVars, email, referrals, fraudChecks,
                 credits>>

\* get_or_create, the create of the credit: the insert fails on the unique
\* index of ReferralCredit.referral when the credit exists.
CreditCreate(k) ==
  /\ Job(k).pc = "credit_create"
  /\ credits' =
       IF CreditUnique(Job(k).id)
         THEN credits \cup
                {[id |-> Cardinality(credits) + 1, referral |-> Job(k).id,
                  user |-> Job(k).ref.referrer, amount |-> CreditAmount,
                  earned_at |-> now, expires_at |-> now + CreditDays,
                  used |-> FALSE]}
         ELSE credits
  /\ SetJob(k, [Job(k) EXCEPT !.pc = "reward"])
  /\ UNCHANGED <<otherVars, accessVars, progressVars, email, referrals, fraudChecks>>

\* referral.status = 'rewarded'; referral.save()
SaveRewarded(k) ==
  /\ Job(k).pc = "reward"
  /\ LET ref == [Job(k).ref EXCEPT !.status = "rewarded"]
     IN  /\ referrals' = [referrals EXCEPT ![Job(k).id] = ref]
         /\ jobs' = [jobs EXCEPT ![k] = [pc |-> "done"]]
         /\ response' = response
  /\ UNCHANGED <<otherVars, accessVars, progressVars, email, fraudChecks, credits>>

\* The webhook answers.
CheckoutDone(k) ==
  /\ Job(k).pc = "done"
  /\ jobs' = [jobs EXCEPT ![k] = Idle]
  /\ response' = [op |-> "webhook", status |-> 200]
  /\ UNCHANGED <<otherVars, accessVars, progressVars, email, referrals, fraudChecks,
                 credits>>

--------------------------------------------------------------------------
(* Payment webhooks and admin operations *)

\* StripeWebhookView._handle_checkout_session_completed in one step, for a
\* user who is the referee of no open referral (the receiver
\* track_referral_conversion then finds nothing to do): update_or_create of
\* the (user, course) subscription with status active.
CheckoutCompleted(u, c) ==
  /\ OpenReferrals(u) = {}
  /\ Job(<<u, c>>).pc = "idle"
  /\ subs' = [subs EXCEPT ![<<u, c>>] = "active"]
  /\ response' = [op |-> "webhook", status |-> 200]
  /\ UNCHANGED <<otherVars, unlocks, now, signingKey, published, progressVars, referralVars>>

\* The status mapping of customer.subscription.updated.
StripeStatus ==
  {"active", "past_due", "canceled", "trialing", "incomplete",
   "incomplete_expired", "unpaid", "paused"}

status_mapping(stripe_status) ==
  CASE stripe_status = "active" -> "active"
    [] stripe_status = "past_due" -> "past_due"
    [] stripe_status = "canceled" -> "cancelled"
    [] stripe_status = "trialing" -> "trialing"
    [] stripe_status = "incomplete" -> "past_due"
    [] stripe_status = "incomplete_expired" -> "cancelled"
    [] stripe_status = "unpaid" -> "past_due"
    [] OTHER -> "cancelled"

\* StripeWebhookView._handle_subscription_updated; an unknown subscription
\* id changes nothing.
SubscriptionUpdated(u, c, stripe_status) ==
  /\ subs' = IF subs[<<u, c>>] = "none" THEN subs
             ELSE [subs EXCEPT ![<<u, c>>] = status_mapping(stripe_status)]
  /\ response' = [op |-> "webhook", status |-> 200]
  /\ UNCHANGED <<otherVars, unlocks, now, signingKey, published, progressVars, referralVars>>

\* StripeWebhookView._handle_subscription_deleted
SubscriptionDeleted(u, c) ==
  /\ subs' = IF subs[<<u, c>>] = "none" THEN subs
             ELSE [subs EXCEPT ![<<u, c>>] = "cancelled"]
  /\ response' = [op |-> "webhook", status |-> 200]
  /\ UNCHANGED <<otherVars, unlocks, now, signingKey, published, progressVars, referralVars>>

\* LessonUnlockAdmin: an admin creates the LessonUnlock row of (user, lesson).
AdminUnlock(u, l) ==
  /\ <<u, l>> \notin unlocks
  /\ unlocks' = unlocks \cup {<<u, l>>}
  /\ response' = NoResponse
  /\ UNCHANGED <<otherVars, subs, now, signingKey, published, progressVars, referralVars>>

\* ReferralFraudCheckAdmin.approve_referrals / reject_referrals on the
\* selected rows: one UPDATE of status, reviewed_by and reviewed_at.
AdminUser == "admin"

ReviewReferrals(ids, status) ==
  /\ ids # {}
  /\ ids \subseteq {f.referral : f \in fraudChecks}
  /\ fraudChecks' =
       {IF f.referral \in ids
          THEN [f EXCEPT !.status = status, !.reviewed_by = AdminUser,
                         !.reviewed_at = Some(now)]
          ELSE f : f \in fraudChecks}
  /\ response' = [op |-> "review_referrals", status |-> status, ids |-> ids]
  /\ UNCHANGED <<otherVars, accessVars, progressVars, email, referrals, credits,
                 jobs>>

approve_referrals(ids) == ReviewReferrals(ids, "approved")

reject_referrals(ids) == ReviewReferrals(ids, "rejected")

\* Time passes.
Tick ==
  /\ now < MaxTime
  /\ now' = now + 1
  /\ response' = NoResponse
  /\ UNCHANGED <<otherVars, subs, unlocks, signingKey, published, progressVars, referralVars>>

--------------------------------------------------------------------------
(* Endpoints that return lesson data *)

\* LessonViewSet.retrieve: IsAuthenticated, the published-course queryset,
\* then IsSubscriberOrReadOnly.has_object_permission, then the serializer.
RetrieveLessonResponse(r, l) ==
  IF r = Anonymous
    THEN [op |-> "lesson_detail", who |-> r, lesson |-> l, status |-> 403,
          items |-> {}]
  ELSE IF Lesson[l].course \notin published
    THEN [op |-> "lesson_detail", who |-> r, lesson |-> l, status |-> 404,
          items |-> {}]
  ELSE IF ~has_object_permission(r, l)
    THEN [op |-> "lesson_detail", who |-> r, lesson |-> l, status |-> 403,
          items |-> {}]
  ELSE [op |-> "lesson_detail", who |-> r, lesson |-> l, status |-> 200,
        items |-> {to_representation(r, l)}]

RetrieveLesson(r, l) ==
  /\ response' = RetrieveLessonResponse(r, l)
  /\ UNCHANGED <<otherVars, accessVars, progressVars, referralVars>>

\* CourseViewSet.lessons (AllowAny): every lesson of a published course,
\* through the lesson serializer.
CourseLessonsResponse(r, c) ==
  IF c \notin published
    THEN [op |-> "course_lessons", who |-> r, course |-> c, status |-> 404,
          items |-> {}]
  ELSE [op |-> "course_lessons", who |-> r, course |-> c, status |-> 200,
        items |-> {to_representation(r, l) : l \in LessonsOf(c)}]

CourseLessons(r, c) ==
  /\ response' = CourseLessonsResponse(r, c)
  /\ UNCHANGED <<otherVars, accessVars, progressVars, referralVars>>

\* CourseViewSet.retrieve (AllowAny): CourseDetailSerializer nests the lesson
\* serializer for the course's lessons.
CourseDetailResponse(r, c) ==
  IF c \notin published
    THEN [op |-> "course_detail", who |-> r, course |-> c, status |-> 404,
          items |-> {}]
  ELSE [op |-> "course_detail", who |-> r, course |-> c, status |-> 200,
        items |-> {to_representation(r, l) : l \in LessonsOf(c)}]

CourseDetail(r, c) ==
  /\ response' = CourseDetailResponse(r, c)
  /\ UNCHANGED <<otherVars, accessVars, progressVars, referralVars>>

--------------------------------------------------------------------------
(* Progress tracker *)

\* LessonProgress rows of a user, and the row of (user, lesson): the pair
\* is unique_together.
RowsOf(u) == {p \in progress : p.user = u}
HasRow(u, l) == \E p \in progress : p.user = u /\ p.lesson = l
RowOf(u, l) == CHOOSE p \in progress : p.user = u /\ p.lesson = l

\* LessonProgress(user=u, lesson=l): the field defaults of a new row
NewRow(u, l) ==
  [user |-> u, lesson |-> l, is_completed |-> FALSE, completed_at |-> None,
   watch_time_seconds |-> 0, last_watched_at |-> now]

\* A faulty variant of Saved: the saved row starts from the field defaults.
saved_from_defaults(u, l, defaults) ==
  [f \in DOMAIN NewRow(u, l) |->
     IF f \in DOMAIN defaults THEN defaults[f] ELSE NewRow(u, l)[f]]

\* The instance update_or_create saves: the existing row, or a new one,
\* with the fields of `defaults` set; last_watched_at is auto_now.
Saved(u, l, defaults) ==
  LET old == IF HasRow(u, l) THEN RowOf(u, l) ELSE NewRow(u, l)
  IN  [f \in DOMAIN old |->
         IF f \in DOMAIN defaults THEN defaults[f]
         ELSE IF f = "last_watched_at" THEN now
         ELSE old[f]]

\* A faulty variant of update_or_create: every call inserts a row.
always_create(u, l, defaults) ==
  progress \cup
    {[f \in DOMAIN NewRow(u, l) |->
        IF f \in DOMAIN defaults THEN defaults[f] ELSE NewRow(u, l)[f]]}

\* LessonProgress.objects.update_or_create(user=u, lesson=l,
\* defaults=defaults): the table after the call
update_or_create(u, l, defaults) ==
  {p \in progress : ~(p.user = u /\ p.lesson = l)} \cup {Saved(u, l, defaults)}

\* The completed rows of a user in a course, in table P
CompletedIn(P, u, c) ==
  {p \in P : p.user = u /\ Lesson[p.lesson].course = c /\ p.is_completed}

\* cache.get('course_complete_email_<user>_<course>')
CacheHit(u, c) ==
  \E e \in mailCache : e.user = u /\ e.course = c /\ e.expires_at > now

\* The receiver check_course_completion (post_save of LessonProgress) for
\* the saved instance, the table being P: one mail when the course is
\* complete and the cache key is absent; the key is then cached for 7 days.
SendsCompletionMail(P, instance) ==
  /\ instance.is_completed
  /\ Cardinality(CompletedIn(P, instance.user, Lesson[instance.lesson].course))
       = Cardinality(LessonsOf(Lesson[instance.lesson].course))
  /\ ~CacheHit(instance.user, Lesson[instance.lesson].course)

check_course_completion(P, instance) ==
  LET u == instance.user
      c == Lesson[instance.lesson].course
  IN  IF SendsCompletionMail(P, instance)
        THEN /\ mailsSent' = [mailsSent EXCEPT ![<<u, c>>] = @ + 1]
             /\ mailCache' =
                  {e \in mailCache : ~(e.user = u /\ e.course = c)} \cup
                    {[user |-> u, course |-> c,
                      expires_at |-> now + CacheDays]}
        ELSE UNCHANGED <<mailsSent, mailCache>>

--------------------------------------------------------------------------
(* Badge engine (badge_checker.py) *)

\* The Badge table as the command create_badges seeds it.
Badge ==
  {[name |-> "First Steps", category |-> "starter",
    requirement_value |-> Some(1)],
   [name |-> "Getting Started", category |-> "starter",
    requirement_value |-> Some(5)],
   [name |-> "Committed Learner", category |-> "starter",
    requirement_value |-> Some(10)],
   [name |-> "Course Complete", category |-> "completion",
    requirement_value |-> Some(1)],
   [name |-> "Completionist", category |-> "completion",
    requirement_value |-> None],
   [name |-> "Conversation Starter", category |-> "engagement",
    requirement_value |-> Some(1)],
   [name |-> "Active Member", category |-> "engagement",
    requirement_value |-> Some(10)]}

BadgeNames == {b.name : b \in Badge}
\* The UserBadge rows of (user, badge) in table T, and a new row of the
\* pair; the id tells the rows of a pair apart.
BadgeRows(T, u, b) == {r \in T : r.user = u /\ r.badge = b}
NewBadgeRow(T, u, b) ==
  [user |-> u, badge |-> b, id |-> Cardinality(BadgeRows(T, u, b)) + 1]
BadgesOf(u) == {n \in BadgeNames : BadgeRows(userBadges, u, n) # {}}

\* A faulty variant of the badge filter: requirement_value__lt.
BadgesBelow(cat, n) ==
  {b.name : b \in {x \in Badge : /\ x.category = cat
                                 /\ x.requirement_value # None
                                 /\ x.requirement_value[1] < n}}

\* Badge.objects.filter(category=cat, requirement_value__lte=n)
BadgesUpTo(cat, n) ==
  {b.name : b \in {x \in Badge : /\ x.category = cat
                                 /\ x.requirement_value # None
                                 /\ x.requirement_value[1] <= n}}

\* The metrics check_and_award_badges computes, the progress table being P
completed_lessons_count(P, u) ==
  Cardinality({p \in P : p.user = u /\ p.is_completed})

completed_courses_count(P, u) ==
  Cardinality({c \in published :
     /\ LessonsOf(c) # {}
     /\ Cardinality(CompletedIn(P, u, c)) = Cardinality(LessonsOf(c))})

total_published_courses == Cardinality(published)

comment_count(u) == comments[u]

\* The badges check_and_award_badges calls award_badge for
Qualified(P, u) ==
  BadgesUpTo("starter", completed_lessons_count(P, u))
    \cup (IF completed_courses_count(P, u) > 0
            THEN {"Course Complete"} \cap BadgeNames ELSE {})
    \cup (IF /\ total_published_courses > 0
             /\ completed_courses_count(P, u) >= total_published_courses
            THEN {"Completionist"} \cap BadgeNames ELSE {})
    \cup BadgesUpTo("engagement", comment_count(u))

\* A faulty variant of award_badge: it reports every badge as created.
always_created(u, b) == TRUE

\* award_badge: UserBadge.objects.get_or_create(user, badge), the flag
\* `created`
award_badge(u, b) == BadgeRows(userBadges, u, b) = {}

\* check_and_award_badges: the list it returns and the UserBadge table it
\* leaves.
newly_awarded(P, u) == {b \in Qualified(P, u) : award_badge(u, b)}

check_and_award_badges(P, u) ==
  userBadges' = userBadges \cup
    {NewBadgeRow(userBadges, u, b) : b \in newly_awarded(P, u)}

--------------------------------------------------------------------------
(* Progress endpoints (LessonProgressViewSet) and comments *)

\* Lesson.objects.get(id=lesson_id, course__is_published=True) succeeds
FindsLesson(l) == l \in Lessons /\ Lesson[l].course \in published

\* mark_complete: the upsert, the post_save receiver, the badge check and
\* the response.
MarkComplete(u, l, t) ==
  IF l = NULL
    THEN /\ response' = [op |-> "mark_complete", who |-> u, status |-> 400]
         /\ UNCHANGED <<otherVars, accessVars, progressVars, referralVars>>
  ELSE IF ~FindsLesson(l)
    THEN /\ response' = [op |-> "mark_complete", who |-> u, status |-> 404]
         /\ UNCHANGED <<otherVars, accessVars, progressVars, referralVars>>
  ELSE
    LET defaults == [is_completed |-> TRUE, completed_at |-> Some(now),
                     watch_time_seconds |-> t]
        P == update_or_create(u, l, defaults)
        instance == Saved(u, l, defaults)
    IN  /\ progress' = P
        /\ check_course_completion(P, instance)
        /\ check_and_award_badges(P, u)
        /\ response' = [op |-> "mark_complete", who |-> u, status |-> 200,
                        lesson |-> l, watch_time_input |-> t,
                        created |-> ~HasRow(u, l),
                        is_completed |-> instance.is_completed,
                        watch_time_seconds |-> instance.watch_time_seconds,
                        newly_earned_badges |-> newly_awarded(P, u)]
        /\ UNCHANGED <<otherVars, accessVars, comments, referralVars>>

\* update_watch_time: the upsert of the watch time, and the post_save
\* receiver.
UpdateWatchTime(u, l, t) ==
  IF l = NULL
    THEN /\ response' = [op |-> "update_watch_time", who |-> u, status |-> 400]
         /\ UNCHANGED <<otherVars, accessVars, progressVars, referralVars>>
  ELSE IF ~FindsLesson(l)
    THEN /\ response' = [op |-> "update_watch_time", who |-> u, status |-> 404]
         /\ UNCHANGED <<otherVars, accessVars, progressVars, referralVars>>
  ELSE
    LET defaults == [watch_time_seconds |-> t]
        P == update_or_create(u, l, defaults)
        instance == Saved(u, l, defaults)
    IN  /\ progress' = P
        /\ check_course_completion(P, instance)
        /\ response' = [op |-> "update_watch_time", who |-> u,
                        status |-> 200, lesson |-> l, watch_time_input |-> t,
                        is_completed |-> instance.is_completed,
                        watch_time_seconds |-> instance.watch_time_seconds]
        /\ UNCHANGED <<otherVars, accessVars, comments, userBadges, referralVars>>

\* ModelViewSet.destroy on the user's own queryset
DeleteProgress(u, l) ==
  /\ IF HasRow(u, l)
       THEN /\ progress' = progress \ {RowOf(u, l)}
            /\ response' = [op |-> "delete_progress", who |-> u,
                            status |-> 204]
       ELSE /\ progress' = progress
            /\ response' = [op |-> "delete_progress", who |-> u,
                            status |-> 404]
  /\ UNCHANGED <<otherVars, accessVars, comments, userBadges, mailCache, mailsSent,
                 referralVars>>

\* course_progress: the rows of the query's joins for a course, one per
\* (lesson, LessonProgress row of the lesson) and one for a lesson without
\* rows (LEFT OUTER JOIN).  Both counts run over these rows.
JoinRows(c) ==
  UNION {IF \E q \in progress : q.lesson = l
           THEN {<<l, Some(p)>> : p \in {q \in progress : q.lesson = l}}
           ELSE {<<l, None>>} : l \in LessonsOf(c)}

\* Count('lessons')
total_lessons(c) == Cardinality(JoinRows(c))

\* Count('lessons__user_progress', filter=Q(user, is_completed=True))
completed_lessons(u, c) ==
  Cardinality({j \in JoinRows(c) :
     j[2] # None /\ j[2][1].user = u /\ j[2][1].is_completed})

\* Max('lessons__user_progress__last_watched_at', filter=Q(user))
last_watched_at(u, c) ==
  LET ts == {j[2][1].last_watched_at :
               j \in {x \in JoinRows(c) : x[2] # None /\ x[2][1].user = u}}
  IN  IF ts = {} THEN None
      ELSE Some(CHOOSE t \in ts : \A x \in ts : x <= t)

\* round(completed / total * 100, 1), in tenths of a percent
completion_percentage(completed, total) ==
  IF total > 0 THEN (2000 * completed + total) \div (2 * total) ELSE 0

\* Course.objects.filter(subscriptions__user=u,
\* subscriptions__status__in=['active', 'trialing'])
subscribed_courses(u) == {c \in Courses : HasSubscription(u, c)}

CourseProgressResponse(r) ==
  IF r = Anonymous
    THEN [op |-> "course_progress", who |-> r, status |-> 403, items |-> {}]
  ELSE [op |-> "course_progress", who |-> r, status |-> 200,
        items |->
          {[course_id |-> c,
            total_lessons |-> total_lessons(c),
            completed_lessons |-> completed_lessons(r, c),
            completion_percentage |->
              completion_percentage(completed_lessons(r, c), total_lessons(c)),
            last_watched_at |-> last_watched_at(r, c)] :
             c \in subscribed_courses(r)}]

CourseProgress(r) ==
  /\ response' = CourseProgressResponse(r)
  /\ UNCHANGED <<otherVars, accessVars, progressVars, referralVars>>

\* recently_watched: order_by('-last_watched_at')[:10], the database picks
\* among rows that tie.
recent_progress(u) ==
  {S \in SUBSET RowsOf(u) :
     /\ Cardinality(S) = Min(RecentLimit, Cardinality(RowsOf(u)))
     /\ \A p \in S, q \in RowsOf(u) \ S :
          p.last_watched_at >= q.last_watched_at}

\* recently_watched: the entries for the rows whose course is in
\* active_course_ids (the order of the list is not modelled).
RecentlyWatchedItems(u, S) ==
  {[lesson_id |-> p.lesson,
    course_id |-> Lesson[p.lesson].course,
    is_completed |-> p.is_completed,
    watch_time_seconds |-> p.watch_time_seconds,
    last_watched_at |-> p.last_watched_at,
    mux_playback_id |-> Lesson[p.lesson].mux_playback_id] :
     p \in {q \in S : HasSubscription(u, Lesson[q.lesson].course)}}

RecentlyWatched(r) ==
  /\ IF r = Anonymous
       THEN response' = [op |-> "recently_watched", who |-> r,
                         status |-> 403, items |-> {}]
       ELSE \E S \in recent_progress(r) :
              response' = [op |-> "recently_watched", who |-> r,
                           status |-> 200,
                           items |-> RecentlyWatchedItems(r, S)]
  /\ UNCHANGED <<otherVars, accessVars, progressVars, referralVars>>

\* CommentViewSet.create / destroy of an own comment
PostComment(u) ==
  /\ comments[u] < MaxComments
  /\ comments' = [comments EXCEPT ![u] = @ + 1]
  /\ response' = [op |-> "post_comment", who |-> u, status |-> 201]
  /\ UNCHANGED <<otherVars, accessVars, progress, userBadges, mailCache, mailsSent,
                 referralVars>>

DeleteComment(u) ==
  /\ comments[u] > 0
  /\ comments' = [comments EXCEPT ![u] = @ - 1]
  /\ response' = [op |-> "delete_comment", who |-> u, status |-> 204]
  /\ UNCHANGED <<otherVars, accessVars, progress, userBadges, mailCache, mailsSent,
                 referralVars>>

--------------------------------------------------------------------------
(* Specification of the entitlement resolver *)

\* The (user, course) pairs that subscribe: u1 to both courses with lessons,
\* u2 to the first one.
AccessPairs == {<<"u1", "c1">>, <<"u1", "c2">>, <<"u2", "c1">>}

NextAccess ==
  \/ \E k \in AccessPairs : CheckoutCompleted(k[1], k[2])
  \/ \E k \in AccessPairs, s \in StripeStatus :
       SubscriptionUpdated(k[1], k[2], s)
  \/ \E k \in AccessPairs : SubscriptionDeleted(k[1], k[2])
  \/ \E u \in Users, l \in DripLessons : AdminUnlock(u, l)
  \/ Tick
  \/ \E r \in Requesters, l \in Lessons : RetrieveLesson(r, l)
  \/ \E r \in Requesters, c \in Courses : CourseLessons(r, c)
  \/ \E r \in Requesters, c \in Courses : CourseDetail(r, c)

SpecAccess == Init /\ [][NextAccess]_vars

--------------------------------------------------------------------------
(* Specification of the progress tracker: u1 subscribes to c1 and to the   *)
(* empty course c3 and reports progress on the lessons of c1; another      *)
(* user, u2, completes the lesson l1.                                      *)

InitProgress ==
  /\ InitTables
  /\ signingKey = TRUE
  /\ email = Registered(Users)

ProgressPairs == {<<"u1", "c1">>, <<"u1", "c3">>}
\* lesson_id of a progress request: a lesson of c1, none, or an unknown id
ProgressLessonIds == LessonsOf("c1") \cup {NULL, "l9"}

NextProgress ==
  \/ \E k \in ProgressPairs : CheckoutCompleted(k[1], k[2])
  \/ \E k \in ProgressPairs : SubscriptionDeleted(k[1], k[2])
  \/ \E l \in ProgressLessonIds, t \in 0..MaxWatch :
       MarkComplete("u1", l, t)
  \/ \E t \in 0..MaxWatch : MarkComplete("u2", "l1", t)
  \/ \E l \in ProgressLessonIds, t \in 0..MaxWatch :
       UpdateWatchTime("u1", l, t)
  \/ \E r \in Requesters : CourseProgress(r)
  \/ \E r \in Requesters : RecentlyWatched(r)

SpecProgress == InitProgress /\ [][NextProgress]_vars

--------------------------------------------------------------------------
(* Specification of the badge engine: u1 completes and deletes progress on *)
(* every lesson, and posts and deletes comments.                           *)

NextBadge ==
  \/ \E l \in Lessons, t \in 0..MaxWatch : MarkComplete("u1", l, t)
  \/ \E l \in Lessons : DeleteProgress("u1", l)
  \/ PostComment("u1")
  \/ DeleteComment("u1")

SpecBadge == InitProgress /\ [][NextBadge]_vars

--------------------------------------------------------------------------
(* Specification of the referral conversion: a referrer u1, a referee u2   *)
(* who registers and then checks out two courses at nearly the same time.  *)

\* The users who register during the run; the others hold an account.
Referees == {"u2"}

InitReferral ==
  /\ InitTables
  /\ signingKey = TRUE
  /\ email = Registered(Users \ Referees)

CheckoutJobs == Referees \X LessonCourses

NextReferral ==
  \/ \E ip \in Ips : TrackClick(CodeOf("u1"), ip)
  \/ \E u \in Referees, dom \in Domains, ip \in Ips,
        code \in {CodeOf("u1"), "DN-XXXXX", NULL} : Register(u, dom, code, ip)
  \/ \E k \in CheckoutJobs : CheckoutStart(k)
  \/ \E k \in CheckoutJobs : SelectReferral(k)
  \/ \E k \in CheckoutJobs : SaveConverted(k)
  \/ \E k \in CheckoutJobs : FraudGet(k)
  \/ \E k \in CheckoutJobs : FraudCreate(k)
  \/ \E k \in CheckoutJobs : ScoreReferral(k)
  \/ \E k \in CheckoutJobs : AutoReview(k)
  \/ \E k \in CheckoutJobs : CheckApproved(k)
  \/ \E k \in CheckoutJobs : CreditCreate(k)
  \/ \E k \in CheckoutJobs : SaveRewarded(k)
  \/ \E k \in CheckoutJobs : CheckoutDone(k)
  \/ Tick

SpecReferral == InitReferral /\ [][NextReferral]_vars

\* The statements of track_referral_conversion inside its try block.
HandlerSteps ==
  {"select", "convert", "fraud_get", "fraud_create", "score", "review",
   "check", "credit_create", "reward"}

\* A faulty variant of the receiver without its except clause: the
\* exception leaves update_or_create, whose transaction is rolled back, and
\* the webhook answers 500.
FailurePropagates(k) ==
  /\ Job(k).pc \in HandlerSteps
  /\ subs' = [subs EXCEPT ![k] = "none"]
  /\ jobs' = [jobs EXCEPT ![k] = Idle]
  /\ response' = [op |-> "webhook", status |-> 500]
  /\ UNCHANGED <<otherVars, unlocks, now, signingKey, published, progressVars,
                 email, referrals, fraudChecks, credits>>

\* except Exception as e: print(...): the statement the receiver stands
\* before raises; what the earlier statements wrote stays, the error is
\* logged and the receiver returns.
ReferralFailure(k) ==
  /\ Job(k).pc \in HandlerSteps
  /\ jobs' = [jobs EXCEPT ![k] = [pc |-> "done", error |-> Job(k).pc]]
  /\ response' = response
  /\ UNCHANGED <<otherVars, accessVars, progressVars, email, referrals,
                 fraudChecks, credits>>

\* The referral program with failing statements.
NextContain ==
  \/ NextReferral
  \/ \E k \in CheckoutJobs : ReferralFailure(k)

SpecContain == InitReferral /\ [][NextContain]_vars

\* The same with an administrator who reviews fraud checks.
NextAdmin ==
  \/ NextReferral
  \/ \E ids \in SUBSET (1..MaxReferrals) : approve_referrals(ids)
  \/ \E ids \in SUBSET (1..MaxReferrals) : reject_referrals(ids)

SpecAdmin == InitReferral /\ [][NextAdmin]_vars

--------------------------------------------------------------------------
(* Login throttling and lockout (auth_security.py), login and two-factor  *)
(* login (views.py).  Cache times are in seconds.                          *)

MAX_ATTEMPTS == 15
LOCKOUT_DURATION == 900
ATTEMPT_EXPIRY == 3600
\* DELAY_THRESHOLDS: <<attempts, delay_seconds>>
DELAY_THRESHOLDS == {<<3, 2>>, <<5, 5>>, <<7, 10>>, <<10, 30>>}

\* Granularity of the passing of time between requests, the largest value
\* the failure counters are followed to, and the number of backup codes.
TimeStep == 300
MaxFailures == 16
MaxBackupCodes == 1

_get_user_key(username) == <<"login_attempts_user", username>>
_get_ip_key(ip_address) == <<"login_attempts_ip", ip_address>>
_get_lockout_key(username) == <<"account_lockout", username>>

\* The cache backend: get with a default, set with a timeout, delete, and
\* the remaining seconds of a key.
cache_has(C, key) == C[key].ttl > 0
cache_get(C, key, default) == IF cache_has(C, key) THEN C[key].value ELSE default
cache_set(C, key, value, timeout) ==
  [C EXCEPT ![key] = [value |-> value, ttl |-> timeout]]
cache_delete(C, key) == [C EXCEPT ![key] = NoEntry]
cache_ttl(C, key) == C[key].ttl
\* The cache after d seconds: entries that have run out are gone.
Elapsed(C, d) ==
  [k \in DOMAIN C |-> IF C[k].ttl > d THEN [C[k] EXCEPT !.ttl = @ - d]
                      ELSE NoEntry]

\* LoginAttemptTracker.record_failed_attempt
record_failed_attempt(C, username, ip_address) ==
  LET user_attempts == cache_get(C, _get_user_key(username), 0)
      C1 == cache_set(C, _get_user_key(username), user_attempts + 1,
                      ATTEMPT_EXPIRY)
      ip_attempts == cache_get(C1, _get_ip_key(ip_address), 0)
      C2 == cache_set(C1, _get_ip_key(ip_address), ip_attempts + 1,
                      ATTEMPT_EXPIRY)
  IN  IF user_attempts + 1 >= MAX_ATTEMPTS
        THEN cache_set(C2, _get_lockout_key(username), 1, LOCKOUT_DURATION)
        ELSE C2

\* A faulty variant of clear_attempts: the counter of the address stays.
clear_user_only(C, username, ip_address) ==
  cache_delete(cache_delete(C, _get_user_key(username)),
               _get_lockout_key(username))

\* LoginAttemptTracker.clear_attempts
clear_attempts(C, username, ip_address) ==
  cache_delete(cache_delete(cache_delete(C, _get_user_key(username)),
                            _get_ip_key(ip_address)),
               _get_lockout_key(username))

\* LoginAttemptTracker.get_attempt_count: <<user_attempts, ip_attempts>>
get_attempt_count(C, username, ip_address) ==
  <<cache_get(C, _get_user_key(username), 0),
    cache_get(C, _get_ip_key(ip_address), 0)>>

\* A faulty variant of is_locked_out: nobody is ever locked out.
never_locked_out(C, username) == <<FALSE, 0>>

\* LoginAttemptTracker.is_locked_out: <<is_locked, seconds_remaining>>; a
\* key that is present has a positive ttl.
is_locked_out(C, username) ==
  IF ~cache_has(C, _get_lockout_key(username)) THEN <<FALSE, 0>>
  ELSE <<TRUE, cache_ttl(C, _get_lockout_key(username))>>

Max2(a, b) == IF a >= b THEN a ELSE b

\* LoginAttemptTracker.get_required_delay: the delay of the largest
\* threshold reached by the larger of the two counters.
get_required_delay(C, username, ip_address) ==
  LET counts == get_attempt_count(C, username, ip_address)
      max_attempts == Max2(counts[1], counts[2])
      reached == {p \in DELAY_THRESHOLDS : max_attempts >= p[1]}
  IN  IF reached = {} THEN 0
      ELSE (CHOOSE p \in reached : \A q \in reached : q[1] <= p[1])[2]

\* The counters are followed up to MaxFailures.
Followed(C, username, ip_address) ==
  /\ cache_get(C, _get_user_key(username), 0) < MaxFailures
  /\ cache_get(C, _get_ip_key(ip_address), 0) < MaxFailures

\* username.lower()
lower(username) ==
  CASE username = "U1" -> "u1"
    [] username = "U2" -> "u2"
    [] OTHER -> username

\* The password store: authenticate returns the user or None.
PasswordOf(u) == "pw-" \o u
authenticate(username, password) ==
  IF username \in Users /\ password = PasswordOf(username) THEN username
  ELSE NULL

\* django.contrib.auth.login: a session of another user is flushed, else
\* the session data is kept; logout flushes the session.
login(sess, user) ==
  IF sess.user # NULL /\ sess.user # user
    THEN [EmptySession EXCEPT !.user = user]
    ELSE [sess EXCEPT !.user = user]
logout(sess) == EmptySession

\* session.pop of the two pending-2FA keys
pop_pending(sess) ==
  [sess EXCEPT !.pending_2fa_user_id = NULL, !.pending_2fa_username = NULL]

\* The code the user's authenticator shows, and the backup codes.
CurrentCode(u) == "totp-" \o u
BackupCodes == {"bk" \o ToString(i) : i \in 1..MaxBackupCodes}
\* A faulty variant of verify_token: every code is accepted.
accept_any_token(u, token) == TRUE

\* TOTPDevice.verify_token / StaticDevice.verify_token (a match is deleted)
totp_verify_token(u, token) == token = CurrentCode(u)
static_verify_token(u, token) == token \in staticTokens[u]

LoginResponse(c, who, code, password, ip) ==
  [op |-> "login", client |-> c, who |-> who, status |-> code,
   password |-> password, ip |-> ip, consulted |-> FALSE,
   locked_until_seconds |-> 0,
   requires_2fa |-> FALSE, attempts_remaining |-> 0]

\* LoginView.post
Login(c, username, password, ip) ==
  /\ IF username = NULL \/ password = NULL
       THEN /\ response' = LoginResponse(c, NULL, 400, password, ip)
            /\ UNCHANGED authVars
       ELSE
         LET name == lower(username)
             locked == is_locked_out(cache, name)
             user == authenticate(name, password)
         IN  IF locked[1]
               THEN /\ response' =
                         [LoginResponse(c, name, 429, password, ip)
                            EXCEPT !.locked_until_seconds = locked[2]]
                    /\ UNCHANGED authVars
             ELSE IF user # NULL
               THEN /\ cache' = clear_attempts(cache, name, ip)
                    /\ IF totp[user] = "confirmed"
                         THEN /\ session' =
                                   [session EXCEPT
                                      ![c].pending_2fa_user_id = user,
                                      ![c].pending_2fa_username = name]
                              /\ response' =
                                   [LoginResponse(c, name, 200, password, ip)
                                      EXCEPT !.consulted = TRUE,
                                             !.requires_2fa = TRUE]
                         ELSE /\ session' =
                                   [session EXCEPT ![c] = login(@, user)]
                              /\ response' =
                                   [LoginResponse(c, name, 200, password, ip)
                                      EXCEPT !.consulted = TRUE]
                    /\ UNCHANGED <<totp, staticTokens>>
             ELSE
               LET recorded == record_failed_attempt(cache, name, ip)
                   counts == get_attempt_count(recorded, name, ip)
                   max_attempts == Max2(counts[1], counts[2])
                   delay == get_required_delay(recorded, name, ip)
                   attempts_remaining == MAX_ATTEMPTS - max_attempts
               IN  /\ Followed(cache, name, ip)
                   /\ cache' = Elapsed(recorded, delay)
                   /\ response' =
                        [LoginResponse(c, name, 401, password, ip)
                           EXCEPT !.consulted = TRUE,
                                  !.attempts_remaining =
                                     Max2(0, attempts_remaining)]
                   /\ UNCHANGED <<session, totp, staticTokens>>
  /\ UNCHANGED <<accessVars, progressVars, referralVars, reviewVars,
                 workerVars>>

\* LogoutView.post (IsAuthenticated)
Logout(c) ==
  /\ IF session[c].user = NULL
       THEN /\ response' = [op |-> "logout", client |-> c, status |-> 403]
            /\ UNCHANGED session
       ELSE /\ session' = [session EXCEPT ![c] = logout(@)]
            /\ response' = [op |-> "logout", client |-> c, status |-> 200]
  /\ UNCHANGED <<accessVars, progressVars, referralVars, reviewVars,
                 workerVars, cache, totp,
                 staticTokens>>

\* TwoFactorSetupView.post (IsAuthenticated)
TwoFactorSetup(c) ==
  /\ session[c].user # NULL
  /\ LET user == session[c].user
     IN  IF totp[user] = "confirmed"
           THEN /\ response' = [op |-> "2fa_setup", client |-> c,
                                status |-> 400]
                /\ UNCHANGED totp
           ELSE /\ totp' = [totp EXCEPT ![user] = "unconfirmed"]
                /\ response' = [op |-> "2fa_setup", client |-> c,
                                status |-> 200]
  /\ UNCHANGED <<accessVars, progressVars, referralVars, reviewVars,
                 workerVars, cache, session,
                 staticTokens>>

\* TwoFactorVerifyView.post (IsAuthenticated): confirms the device and
\* creates the backup codes.
TwoFactorVerify(c, token) ==
  /\ session[c].user # NULL
  /\ LET user == session[c].user
     IN  IF token # NULL /\ totp[user] = "unconfirmed"
              /\ totp_verify_token(user, token)
           THEN /\ totp' = [totp EXCEPT ![user] = "confirmed"]
                /\ staticTokens' =
                     [staticTokens EXCEPT ![user] = @ \cup BackupCodes]
                /\ response' = [op |-> "2fa_verify", client |-> c,
                                status |-> 200]
           ELSE /\ response' = [op |-> "2fa_verify", client |-> c,
                                status |-> 400]
                /\ UNCHANGED <<totp, staticTokens>>
  /\ UNCHANGED <<accessVars, progressVars, referralVars, reviewVars,
                 workerVars, cache, session>>

\* TwoFactorDisableView.post (IsAuthenticated)
TwoFactorDisable(c, password) ==
  /\ session[c].user # NULL
  /\ LET user == session[c].user
     IN  IF password = NULL
           THEN /\ response' = [op |-> "2fa_disable", client |-> c,
                                status |-> 400]
                /\ UNCHANGED <<totp, staticTokens>>
         ELSE IF password # PasswordOf(user)
           THEN /\ response' = [op |-> "2fa_disable", client |-> c,
                                status |-> 401]
                /\ UNCHANGED <<totp, staticTokens>>
         ELSE /\ totp' = [totp EXCEPT ![user] = "none"]
              /\ staticTokens' = [staticTokens EXCEPT ![user] = {}]
              /\ response' = [op |-> "2fa_disable", client |-> c,
                              status |-> 200]
  /\ UNCHANGED <<accessVars, progressVars, referralVars, reviewVars,
                 workerVars, cache, session>>

VerifyLoginResponse(c, who, code, token, method) ==
  [op |-> "verify_login", client |-> c, who |-> who, status |-> code,
   token |-> token, method |-> method]

\* TwoFactorVerifyLoginView.post
TwoFactorVerifyLogin(c, token, ip) ==
  /\ LET user_id == session[c].pending_2fa_user_id
         username == session[c].pending_2fa_username
     IN  IF user_id = NULL \/ token = NULL
           THEN /\ response' = VerifyLoginResponse(c, user_id, 400, token,
                                                   "none")
                /\ UNCHANGED authVars
         ELSE IF totp[user_id] = "confirmed"
                   /\ totp_verify_token(user_id, token)
           THEN /\ session' = [session EXCEPT
                                 ![c] = login(pop_pending(@), user_id)]
                /\ response' = VerifyLoginResponse(c, user_id, 200, token,
                                                   "totp")
                /\ UNCHANGED <<cache, totp, staticTokens>>
         ELSE IF static_verify_token(user_id, token)
           THEN /\ staticTokens' =
                     [staticTokens EXCEPT ![user_id] = @ \ {token}]
                /\ session' = [session EXCEPT
                                 ![c] = login(pop_pending(@), user_id)]
                /\ response' = VerifyLoginResponse(c, user_id, 200, token,
                                                   "backup")
                /\ UNCHANGED <<cache, totp>>
         ELSE
           LET recorded == record_failed_attempt(cache, username, ip)
               counts == get_attempt_count(recorded, username, ip)
               attempts_remaining ==
                 MAX_ATTEMPTS - Max2(counts[1], counts[2])
           IN  /\ Followed(cache, username, ip)
               /\ cache' = recorded
               /\ session' = IF attempts_remaining <= 0
                               THEN [session EXCEPT ![c] = pop_pending(@)]
                               ELSE session
               /\ response' = VerifyLoginResponse(c, user_id, 401, token,
                                                  "none")
               /\ UNCHANGED <<totp, staticTokens>>
  /\ UNCHANGED <<accessVars, progressVars, referralVars, reviewVars,
                 workerVars>>

\* Time passes between two requests.
Elapse(d) ==
  /\ \E k \in DOMAIN cache : cache_has(cache, k)
  /\ cache' = Elapsed(cache, d)
  /\ response' = NoResponse
  /\ UNCHANGED <<accessVars, progressVars, referralVars, reviewVars,
                 workerVars, session, totp,
                 staticTokens>>

--------------------------------------------------------------------------
(* Specification of login: one browser, the account u1, its password,     *)
(* right or wrong, with or without a second factor.                        *)

InitLogin ==
  /\ InitTables
  /\ signingKey = TRUE
  /\ email = Registered(Users)

LoginNames == {"u1", "U1", NULL}
LoginPasswords == {PasswordOf("u1"), "bad", NULL}
LoginTokens == {CurrentCode("u1"), CurrentCode("u2"), NULL} \cup BackupCodes
LoginIps == {"ip1"}

NextLogin ==
  \/ \E c \in Clients, name \in LoginNames, pw \in LoginPasswords,
        ip \in LoginIps : Login(c, name, pw, ip)
  \/ \E c \in Clients : Logout(c)
  \/ \E c \in Clients : TwoFactorSetup(c)
  \/ \E c \in Clients, token \in LoginTokens : TwoFactorVerify(c, token)
  \/ \E c \in Clients, pw \in LoginPasswords : TwoFactorDisable(c, pw)
  \/ \E c \in Clients, token \in LoginTokens, ip \in LoginIps :
       TwoFactorVerifyLogin(c, token, ip)
  \/ Elapse(TimeStep)

SpecLogin == InitLogin /\ [][NextLogin]_vars

--------------------------------------------------------------------------
(* Specification of the login counters of two usernames and two clients'  *)
(* addresses: the cache holds the traces of earlier failed logins.        *)

\* Seconds since the earlier failures were recorded.
CacheAge == 600

\* The entry of a counter with n failures, and of a lockout, CacheAge
\* seconds after it was set.
CounterEntry(n) ==
  IF n = 0 THEN NoEntry ELSE [value |-> n, ttl |-> ATTEMPT_EXPIRY - CacheAge]
LockoutEntry(on) ==
  IF on THEN [value |-> 1, ttl |-> LOCKOUT_DURATION - CacheAge] ELSE NoEntry

\* Counters of earlier failures: none, one, or as many as lock the username.
EarlierFailures == {0, 1, MAX_ATTEMPTS}

InitClear ==
  /\ InitDatabase
  /\ published = LessonCourses
  /\ signingKey = TRUE
  /\ email = Registered(Users)
  /\ \E n \in [Users \cup Ips -> EarlierFailures], on \in [Users -> BOOLEAN] :
       /\ \A u \in Users : on[u] => n[u] >= MAX_ATTEMPTS
       /\ cache = [k \in CacheKeys |->
                     CASE k[1] = "login_attempts_user" -> CounterEntry(n[k[2]])
                       [] k[1] = "login_attempts_ip" -> CounterEntry(n[k[2]])
                       [] k[1] = "account_lockout" -> LockoutEntry(on[k[2]])]
  /\ totp \in [Users -> {"none", "confirmed"}]
  /\ InitSessions

ClearNames == {"u1", "U2"}
ClearPasswords == {PasswordOf("u1"), PasswordOf("u2")}

\* One login request on the cache that the earlier requests left.
NextClear ==
  /\ response = NoResponse
  /\ \E c \in Clients, name \in ClearNames, pw \in ClearPasswords, ip \in Ips :
       Login(c, name, pw, ip)

SpecClear == InitClear /\ [][NextClear]_vars

--------------------------------------------------------------------------
(* Course reviews (serializers.py, views.py, models.py, signals.py) *)

RECURSIVE SumRatings(_)
SumRatings(S) ==
  IF S = {} THEN 0
  ELSE LET r == CHOOSE x \in S : TRUE IN r.rating + SumRatings(S \ {r})

\* Avg('rating') stored in DecimalField(max_digits=3, decimal_places=2):
\* hundredths, rounded half to even.
AvgRating(S) ==
  LET n == Cardinality(S)
      q == (100 * SumRatings(S)) \div n
      r == (100 * SumRatings(S)) % n
  IN  IF 2 * r > n THEN q + 1
      ELSE IF 2 * r = n THEN q + (q % 2)
      ELSE q

\* Course.update_rating_cache on the review table R
update_rating_cache(R, c) ==
  LET visible == {r \in R : r.course = c /\ ~r.is_hidden}
  IN  [ratingCache EXCEPT ![c] =
         [total_reviews |-> Cardinality(visible),
          average_rating |-> IF Cardinality(visible) > 0
                               THEN Some(AvgRating(visible)) ELSE None]]

\* A faulty variant of ReviewUnique: no unique index on (user, course).
NoReviewIndex(u, c) == TRUE

\* unique_together = ['user', 'course'] of CourseReview
ReviewUnique(u, c) == ~\E r \in reviews : r.user = u /\ r.course = c

FreeReviewId ==
  CHOOSE i \in 1..(Cardinality(reviews) + 1) :
    ~\E r \in reviews : r.id = i

\* CourseReviewSerializer.validate: the error, or NULL when the data pass
ReviewValidate(u, course) ==
  LET total == Cardinality(LessonsOf(course))
      completed == Cardinality(CompletedIn(progress, u, course))
  IN  IF course = NULL THEN "Course context is required"
      ELSE IF total = 0 THEN "This course has no lessons yet."
      ELSE IF completed * 100 < 50 * total
        THEN "You must complete at least 50% of the course"
      ELSE NULL

ReviewResponse(r, course_id, rating, code) ==
  [op |-> "create_review", who |-> r, course_id |-> course_id,
   rating |-> rating, status |-> code]

\* CourseReviewViewSet.create: IsAuthenticatedOrReadOnly, the serializer's
\* field validation and validate, perform_create, and the post_save
\* receiver update_course_rating_on_save.  PermissionDenied is looked up
\* in rest_framework.permissions: the request ends with the 403 of the
\* exception where that module provides the name and with the 500 of the
\* AttributeError where it does not.
CreateReview(r, course_id, rating) ==
  LET course == IF course_id \in published THEN course_id ELSE NULL
  IN
  /\ IF r = Anonymous
       THEN /\ response' = ReviewResponse(r, course_id, rating, 403)
            /\ UNCHANGED reviewVars
     ELSE IF rating \notin 1..5 \/ ReviewValidate(r, course) # NULL
       THEN /\ response' = ReviewResponse(r, course_id, rating, 400)
            /\ UNCHANGED reviewVars
     ELSE IF subs[<<r, course>>] \notin {"active", "trialing"}
       THEN /\ \E code \in {403, 500} :
                 response' = ReviewResponse(r, course_id, rating, code)
            /\ UNCHANGED reviewVars
     ELSE IF ~ReviewUnique(r, course)
       THEN /\ response' = ReviewResponse(r, course_id, rating, 500)
            /\ UNCHANGED reviewVars
     ELSE LET R == reviews \cup
                     {[id |-> FreeReviewId, user |-> r, course |-> course,
                       rating |-> rating, is_hidden |-> FALSE]}
          IN  /\ reviews' = R
              /\ ratingCache' = update_rating_cache(R, course)
              /\ response' = ReviewResponse(r, course_id, rating, 201)
  /\ UNCHANGED <<accessVars, progressVars, referralVars, authVars,
                 workerVars>>

\* CourseReviewViewSet.destroy by a staff user, and the post_delete
\* receiver update_course_rating_on_delete.
DestroyReview(row) ==
  /\ row \in reviews
  /\ reviews' = reviews \ {row}
  /\ ratingCache' = update_rating_cache(reviews \ {row}, row.course)
  /\ response' = [op |-> "destroy_review", status |-> 204]
  /\ UNCHANGED <<accessVars, progressVars, referralVars, authVars,
                 workerVars>>

--------------------------------------------------------------------------
(* Specification of reviews: all three courses are published, c3 without  *)
(* a lesson; two users subscribe, complete lessons of c1 and review.       *)

InitReview ==
  /\ InitRows
  /\ published = Courses
  /\ signingKey = TRUE
  /\ email = Registered(Users)

ReviewCourseIds == {"c1", "c3", NULL}
ReviewRatings == {0, 1, 4}

NextReview ==
  \/ \E u \in Users : CheckoutCompleted(u, "c1")
  \/ \E u \in Users, st \in {"trialing", "past_due"} :
       SubscriptionUpdated(u, "c1", st)
  \/ \E u \in Users, l \in LessonsOf("c1") : MarkComplete(u, l, 0)
  \/ \E u \in Users, c \in ReviewCourseIds, rating \in ReviewRatings :
       CreateReview(u, c, rating)
  \/ CreateReview(Anonymous, "c1", 4)
  \/ \E row \in reviews : DestroyReview(row)

SpecReview == InitReview /\ [][NextReview]_vars

--------------------------------------------------------------------------
(* Specification of the watch time: two users complete lessons and report *)
(* watch times while the days pass.                                        *)

NextWatch ==
  \/ \E l \in ProgressLessonIds, t \in 0..MaxWatch :
       MarkComplete("u1", l, t)
  \/ \E l \in ProgressLessonIds, t \in 0..MaxWatch :
       UpdateWatchTime("u1", l, t)
  \/ \E t \in 0..MaxWatch : MarkComplete("u2", "l1", t)
  \/ \E t \in 0..MaxWatch : UpdateWatchTime("u2", "l1", t)
  \/ Tick

SpecWatch == InitProgress /\ [][NextWatch]_vars

--------------------------------------------------------------------------
(* mark_complete statement by statement, for requests that run at the     *)
(* same time (views.py, signals.py, badge_checker.py)                      *)

Worker(w) == workers[w]
SetWorker(w, rec) == workers' = [workers EXCEPT ![w] = rec]

\* A faulty variant of UserBadgeUnique: no unique index on (user, badge).
NoBadgeIndex(u, b) == TRUE

\* unique_together = ['user', 'badge'] of UserBadge
UserBadgeUnique(u, b) == BadgeRows(userBadges, u, b) = {}

\* mark_complete up to the saved row: the lesson lookup and update_or_create
WorkerStart(w, u, l, t) ==
  /\ Worker(w).pc = "idle"
  /\ FindsLesson(l)
  /\ progress' = update_or_create(u, l,
                   [is_completed |-> TRUE, completed_at |-> Some(now),
                    watch_time_seconds |-> t])
  /\ SetWorker(w, [pc |-> "count", user |-> u, lesson |-> l,
                   todo |-> {}, then |-> "", badge |-> NULL,
                   found |-> {}, awarded |-> {}, collided |-> FALSE])
  /\ response' = NoResponse
  /\ UNCHANGED <<accessVars, comments, userBadges, mailCache, mailsSent,
                 referralVars, authVars, reviewVars>>

WorkerFrame ==
  UNCHANGED <<accessVars, progress, comments, referralVars, authVars,
              reviewVars>>

\* check_course_completion: the two counts
WorkerCount(w) ==
  /\ Worker(w).pc = "count"
  /\ LET c == Lesson[Worker(w).lesson].course
         total == Cardinality(LessonsOf(c))
         completed == Cardinality(CompletedIn(progress, Worker(w).user, c))
     IN  SetWorker(w, [Worker(w) EXCEPT !.pc =
           IF completed = total THEN "cache_get" ELSE "starter"])
  /\ response' = NoResponse
  /\ UNCHANGED <<userBadges, mailCache, mailsSent>>
  /\ WorkerFrame

\* check_course_completion: if not cache.get(cache_key)
WorkerCacheGet(w) ==
  /\ Worker(w).pc = "cache_get"
  /\ SetWorker(w, [Worker(w) EXCEPT !.pc =
       IF CacheHit(Worker(w).user, Lesson[Worker(w).lesson].course)
         THEN "starter" ELSE "send"])
  /\ response' = NoResponse
  /\ UNCHANGED <<userBadges, mailCache, mailsSent>>
  /\ WorkerFrame

\* check_course_completion: emails.send_course_completion_email
WorkerSendMail(w) ==
  /\ Worker(w).pc = "send"
  /\ mailsSent' = [mailsSent EXCEPT
       ![<<Worker(w).user, Lesson[Worker(w).lesson].course>>] = @ + 1]
  /\ SetWorker(w, [Worker(w) EXCEPT !.pc = "cache_set"])
  /\ response' = NoResponse
  /\ UNCHANGED <<userBadges, mailCache>>
  /\ WorkerFrame

\* check_course_completion: cache.set(cache_key, True, 7 days)
WorkerCacheSet(w) ==
  /\ Worker(w).pc = "cache_set"
  /\ LET u == Worker(w).user
         c == Lesson[Worker(w).lesson].course
     IN  mailCache' =
           {e \in mailCache : ~(e.user = u /\ e.course = c)} \cup
             {[user |-> u, course |-> c, expires_at |-> now + CacheDays]}
  /\ SetWorker(w, [Worker(w) EXCEPT !.pc = "starter"])
  /\ response' = NoResponse
  /\ UNCHANGED <<userBadges, mailsSent>>
  /\ WorkerFrame

\* check_and_award_badges: the query of each of its three parts, which
\* yields the badges to call award_badge for.
WorkerQuery(w) ==
  /\ Worker(w).pc \in {"starter", "completion", "engagement"}
  /\ LET u == Worker(w).user
         todo ==
           CASE Worker(w).pc = "starter" ->
                  BadgesUpTo("starter", completed_lessons_count(progress, u))
             [] Worker(w).pc = "completion" ->
                  (IF completed_courses_count(progress, u) > 0
                     THEN {"Course Complete"} \cap BadgeNames ELSE {})
                  \cup
                  (IF /\ total_published_courses > 0
                      /\ completed_courses_count(progress, u)
                           >= total_published_courses
                     THEN {"Completionist"} \cap BadgeNames ELSE {})
             [] OTHER -> BadgesUpTo("engagement", comment_count(u))
         then ==
           CASE Worker(w).pc = "starter" -> "completion"
             [] Worker(w).pc = "completion" -> "engagement"
             [] OTHER -> "respond"
     IN  SetWorker(w, [Worker(w) EXCEPT !.pc = "award", !.todo = todo,
                                        !.then = then])
  /\ response' = NoResponse
  /\ UNCHANGED <<userBadges, mailCache, mailsSent>>
  /\ WorkerFrame

\* award_badge, get_or_create: the SELECT of the row
WorkerAwardGet(w) ==
  /\ Worker(w).pc = "award"
  /\ IF Worker(w).todo = {}
       THEN SetWorker(w, [Worker(w) EXCEPT !.pc = Worker(w).then])
       ELSE \E b \in Worker(w).todo :
              SetWorker(w, [Worker(w) EXCEPT
                !.todo = @ \ {b},
                !.found = @ \cup {b},
                !.badge = b,
                !.pc = IF BadgeRows(userBadges, Worker(w).user, b) # {}
                         THEN "award" ELSE "award_create"])
  /\ response' = NoResponse
  /\ UNCHANGED <<userBadges, mailCache, mailsSent>>
  /\ WorkerFrame

\* award_badge, get_or_create: the INSERT; on IntegrityError the row is
\* read again and created is False.
WorkerAwardCreate(w) ==
  /\ Worker(w).pc = "award_create"
  /\ LET u == Worker(w).user
         b == Worker(w).badge
     IN  IF UserBadgeUnique(u, b)
           THEN /\ userBadges' = userBadges \cup
                                   {NewBadgeRow(userBadges, u, b)}
                /\ SetWorker(w, [Worker(w) EXCEPT !.pc = "award",
                                   !.awarded = @ \cup {b}])
           ELSE /\ UNCHANGED userBadges
                /\ SetWorker(w, [Worker(w) EXCEPT !.pc = "award",
                                   !.collided = TRUE])
  /\ response' = NoResponse
  /\ UNCHANGED <<mailCache, mailsSent>>
  /\ WorkerFrame

\* mark_complete: the response with the newly earned badges
WorkerRespond(w) ==
  /\ Worker(w).pc = "respond"
  /\ response' = [op |-> "mark_complete_worker", who |-> Worker(w).user,
                  status |-> 200, lesson |-> Worker(w).lesson,
                  newly_earned_badges |-> Worker(w).awarded]
  /\ SetWorker(w, Idle)
  /\ UNCHANGED <<userBadges, mailCache, mailsSent>>
  /\ WorkerFrame

--------------------------------------------------------------------------
(* Specification of concurrent requests: two workers process mark_complete *)
(* requests of user u1 for the lessons of c2 and c1.                        *)

WorkerLessons == {"l1", "l3"}

NextWorker ==
  \/ \E w \in Workers, l \in WorkerLessons : WorkerStart(w, "u1", l, 0)
  \/ \E w \in Workers : WorkerCount(w)
  \/ \E w \in Workers : WorkerCacheGet(w)
  \/ \E w \in Workers : WorkerSendMail(w)
  \/ \E w \in Workers : WorkerCacheSet(w)
  \/ \E w \in Workers : WorkerQuery(w)
  \/ \E w \in Workers : WorkerAwardGet(w)
  \/ \E w \in Workers : WorkerAwardCreate(w)
  \/ \E w \in Workers : WorkerRespond(w)

SpecWorker == InitProgress /\ [][NextWorker]_vars

--------------------------------------------------------------------------
(* LoginView.post with a wrong password, statement by statement, for      *)
(* requests that are processed at the same time (views.py,                *)
(* auth_security.py).  A worker keeps its answer; the seconds the workers *)
(* sleep are short against the lifetime of the counters and do not pass   *)
(* in the cache.                                                          *)

FailFrame ==
  UNCHANGED <<accessVars, progressVars, referralVars, session, totp,
              staticTokens, reviewVars>>

\* is_locked_out, then authenticate() with a wrong password
FailStart(w, username, ip) ==
  /\ Worker(w).pc = "idle"
  /\ LET name == lower(username)
     IN  IF is_locked_out(cache, name)[1]
           THEN SetWorker(w, [pc |-> "answered", status |-> 429,
                              username |-> name, ip |-> ip])
           ELSE SetWorker(w, [pc |-> "get_user", status |-> 0,
                              username |-> name, ip |-> ip,
                              user_attempts |-> 0, ip_attempts |-> 0])
  /\ cache' = cache
  /\ response' = NoResponse
  /\ FailFrame

\* record_failed_attempt: user_attempts = cache.get(user_key, 0)
FailGetUser(w) ==
  /\ Worker(w).pc = "get_user"
  /\ SetWorker(w, [Worker(w) EXCEPT
       !.pc = "set_user",
       !.user_attempts = cache_get(cache, _get_user_key(Worker(w).username), 0)])
  /\ cache' = cache
  /\ response' = NoResponse
  /\ FailFrame

\* cache.set(user_key, user_attempts + 1, ATTEMPT_EXPIRY)
FailSetUser(w) ==
  /\ Worker(w).pc = "set_user"
  /\ cache' = cache_set(cache, _get_user_key(Worker(w).username),
                        Worker(w).user_attempts + 1, ATTEMPT_EXPIRY)
  /\ SetWorker(w, [Worker(w) EXCEPT !.pc = "get_ip"])
  /\ response' = NoResponse
  /\ FailFrame

\* ip_attempts = cache.get(ip_key, 0)
FailGetIp(w) ==
  /\ Worker(w).pc = "get_ip"
  /\ SetWorker(w, [Worker(w) EXCEPT
       !.pc = "set_ip",
       !.ip_attempts = cache_get(cache, _get_ip_key(Worker(w).ip), 0)])
  /\ cache' = cache
  /\ response' = NoResponse
  /\ FailFrame

\* cache.set(ip_key, ip_attempts + 1, ATTEMPT_EXPIRY)
FailSetIp(w) ==
  /\ Worker(w).pc = "set_ip"
  /\ cache' = cache_set(cache, _get_ip_key(Worker(w).ip),
                        Worker(w).ip_attempts + 1, ATTEMPT_EXPIRY)
  /\ SetWorker(w, [Worker(w) EXCEPT !.pc = "lock"])
  /\ response' = NoResponse
  /\ FailFrame

\* if user_attempts + 1 >= MAX_ATTEMPTS: cache.set(lockout_key, ..); then
\* the answer 401
FailLock(w) ==
  /\ Worker(w).pc = "lock"
  /\ cache' = IF Worker(w).user_attempts + 1 >= MAX_ATTEMPTS
                THEN cache_set(cache, _get_lockout_key(Worker(w).username), 1,
                               LOCKOUT_DURATION)
                ELSE cache
  /\ SetWorker(w, [Worker(w) EXCEPT !.pc = "answered", !.status = 401])
  /\ response' = NoResponse
  /\ FailFrame

\* The failures recorded before the requests: none, or two less than lock
\* the username.
EarlierFailed == {0, MAX_ATTEMPTS - 2}

InitFail ==
  /\ InitDatabase
  /\ published = LessonCourses
  /\ signingKey = TRUE
  /\ email = Registered(Users)
  /\ \E n \in EarlierFailed :
       cache = [k \in CacheKeys |->
                  IF k \in {_get_user_key("u1"), _get_ip_key("ip1")}
                    THEN CounterEntry(n) ELSE NoEntry]
  /\ totp = [u \in Users |-> "none"]
  /\ InitSessions

FailNames == {"u1", "U1"}

NextFail ==
  \/ \E w \in Workers, name \in FailNames, ip \in Ips : FailStart(w, name, ip)
  \/ \E w \in Workers : FailGetUser(w)
  \/ \E w \in Workers : FailSetUser(w)
  \/ \E w \in Workers : FailGetIp(w)
  \/ \E w \in Workers : FailSetIp(w)
  \/ \E w \in Workers : FailLock(w)

SpecFail == InitFail /\ [][NextFail]_vars

--------------------------------------------------------------------------
(* RegisterView.post statement by statement, for registrations that run   *)
(* at the same time (views.py).  The request is within the registration   *)
(* rate limit and its data are valid.                                     *)

\* serializer.save() and login(): the User row exists.
RegisterStart(w, u, dom, code, ip) ==
  /\ Worker(w).pc = "idle"
  /\ email[u] = NULL
  /\ email' = [email EXCEPT ![u] = dom]
  /\ SetWorker(w, [pc |-> IF code = NULL THEN "reg_respond" ELSE "reg_lookup",
                   user |-> u, code |-> code, ip |-> ip])
  /\ response' = NoResponse
  /\ UNCHANGED <<accessVars, progressVars, referrals, fraudChecks, credits,
                 jobs, authVars, reviewVars>>

\* ReferralCode.objects.get(code=..), then
\* Referral.objects.filter(code_used=.., referee__isnull=True,
\* status='clicked').first()
RegisterLookup(w) ==
  /\ Worker(w).pc = "reg_lookup"
  /\ IF OwnerOf(Worker(w).code) = NULL
       THEN SetWorker(w, [Worker(w) EXCEPT !.pc = "reg_respond"])
     ELSE IF UnattributedClicks(Worker(w).code) # {}
       THEN \E i \in Newest(UnattributedClicks(Worker(w).code)) :
              SetWorker(w, [pc |-> "reg_attach", user |-> Worker(w).user,
                            code |-> Worker(w).code, ip |-> Worker(w).ip,
                            id |-> i, ref |-> referrals[i]])
     ELSE SetWorker(w, [pc |-> "reg_create", user |-> Worker(w).user,
                        code |-> Worker(w).code, ip |-> Worker(w).ip,
                        referrer |-> OwnerOf(Worker(w).code)])
  /\ response' = NoResponse
  /\ UNCHANGED <<accessVars, progressVars, referralVars, authVars, reviewVars>>

\* referral.referee = user; referral.status = 'signed_up'; referral.save():
\* the save writes every field of the loaded instance.
RegisterAttach(w) ==
  /\ Worker(w).pc = "reg_attach"
  /\ referrals' = [referrals EXCEPT ![Worker(w).id] =
                     [Worker(w).ref EXCEPT !.referee = Worker(w).user,
                                           !.status = "signed_up"]]
  /\ SetWorker(w, [pc |-> "reg_respond", user |-> Worker(w).user,
                   code |-> Worker(w).code, ip |-> Worker(w).ip])
  /\ response' = NoResponse
  /\ UNCHANGED <<accessVars, progressVars, email, fraudChecks, credits, jobs,
                 authVars, reviewVars>>

\* Referral.objects.create(referrer, referee, code_used, status='signed_up')
RegisterCreate(w) ==
  /\ Worker(w).pc = "reg_create"
  /\ Len(referrals) < MaxReferrals
  /\ referrals' = Append(referrals,
         [referrer |-> Worker(w).referrer, referee |-> Worker(w).user,
          code_used |-> Worker(w).code, status |-> "signed_up",
          ip_address |-> Worker(w).ip, created_at |-> now,
          first_subscription_at |-> None])
  /\ SetWorker(w, [pc |-> "reg_respond", user |-> Worker(w).user,
                   code |-> Worker(w).code, ip |-> Worker(w).ip])
  /\ response' = NoResponse
  /\ UNCHANGED <<accessVars, progressVars, email, fraudChecks, credits, jobs,
                 authVars, reviewVars>>

\* The response 201
RegisterRespond(w) ==
  /\ Worker(w).pc = "reg_respond"
  /\ SetWorker(w, Idle)
  /\ response' = [op |-> "register", who |-> Worker(w).user, status |-> 201,
                  referral_code |-> Worker(w).code]
  /\ UNCHANGED <<accessVars, progressVars, referralVars, authVars, reviewVars>>

\* Two visitors register while u1 holds an account and a referral code.
Registrants == Accounts \ {"u1"}
RegisterCodes == {CodeOf("u1"), "DN-XXXXX", NULL}

InitRegister ==
  /\ InitTables
  /\ signingKey = TRUE
  /\ email = Registered({"u1"})

NextRegister ==
  \/ \E ip \in Ips : TrackClick(CodeOf("u1"), ip)
  \/ \E w \in Workers, u \in Registrants, code \in RegisterCodes, ip \in Ips :
       RegisterStart(w, u, "example.com", code, ip)
  \/ \E w \in Workers : RegisterLookup(w)
  \/ \E w \in Workers : RegisterAttach(w)
  \/ \E w \in Workers : RegisterCreate(w)
  \/ \E w \in Workers : RegisterRespond(w)

SpecRegister == InitRegister /\ [][NextRegister]_vars

--------------------------------------------------------------------------
(* Specification of the fraud score: the checkout of the referee u2 stands *)
(* before calculate_fraud_score, the Referral table holding the referee's  *)
(* row and up to RapidSignupLimit other rows: clicks of the same code from *)
(* either address, recent or older than a day, and rows of another         *)
(* referrer.                                                               *)

ScoreJob == <<"u2", "c1">>

OtherRows ==
  {[referrer |-> "u1", referee |-> NULL, code_used |-> CodeOf("u1"),
    status |-> "clicked", ip_address |-> ip, created_at |-> t,
    first_subscription_at |-> None] : ip \in Ips, t \in {0, 2}}
    \cup
  {[referrer |-> "u2", referee |-> NULL, code_used |-> CodeOf("u2"),
    status |-> "clicked", ip_address |-> "ip1", created_at |-> 2,
    first_subscription_at |-> None]}

SubjectRows ==
  {[referrer |-> "u1", referee |-> "u2", code_used |-> CodeOf("u1"),
    status |-> "converted", ip_address |-> ip, created_at |-> 2,
    first_subscription_at |-> Some(2)] : ip \in {"ip1", NULL}}

NewFraudCheck(i) ==
  [referral |-> i, same_ip |-> FALSE, rapid_signup |-> FALSE,
   disposable_email |-> FALSE, fraud_score |-> 0, status |-> "pending",
   reviewed_by |-> NULL, reviewed_at |-> None]

InitScore ==
  /\ subs = [p \in Users \X Courses |->
               IF p = ScoreJob THEN "active" ELSE "none"]
  /\ unlocks = {}
  /\ now = 2
  /\ signingKey = TRUE
  /\ published = LessonCourses
  /\ response = NoResponse
  /\ progress = {}
  /\ comments = [u \in Users |-> 0]
  /\ userBadges = {}
  /\ mailCache = {}
  /\ mailsSent = [p \in Users \X Courses |-> 0]
  /\ \E dom \in Domains :
       email = [Registered(Users) EXCEPT !["u2"] = dom]
  /\ \E subject \in SubjectRows, n \in 0..RapidSignupLimit :
       \E others \in [1..n -> OtherRows] :
         /\ referrals = <<subject>> \o others
         /\ jobs = [p \in Users \X Courses |->
                      IF p = ScoreJob
                        THEN [pc |-> "score", id |-> 1, ref |-> subject,
                              fc |-> NewFraudCheck(1)]
                        ELSE Idle]
  /\ fraudChecks = {NewFraudCheck(1)}
  /\ credits = {}
  /\ InitOther

NextScore ==
  \/ ScoreReferral(ScoreJob)
  \/ AutoReview(ScoreJob)
  \/ CheckApproved(ScoreJob)
  \/ CreditCreate(ScoreJob)
  \/ SaveRewarded(ScoreJob)
  \/ CheckoutDone(ScoreJob)

SpecScore == InitScore /\ [][NextScore]_vars

--------------------------------------------------------------------------
(* Properties *)

\* The terms of the properties, stated on the tables.
Subscribed(r, c) == r \in Users /\ subs[<<r, c>>] \in {"active", "trialing"}

DripLockedFor(r, l) ==
  /\ Lesson[l].unlock_date # None
  /\ Lesson[l].unlock_date[1] > now
  /\ <<r, l>> \notin unlocks

Denied(r, l) ==
  /\ ~Lesson[l].is_free_preview
  /\ \/ r = Anonymous
     \/ ~Subscribed(r, Lesson[l].course)
     \/ DripLockedFor(r, l)

SerializerOps == {"lesson_detail", "course_lessons", "course_detail"}
IsLessonData == response.op \in SerializerOps
Withheld(it) == it.video_url = NULL /\ it.mux_playback_id = NULL

\* C1: for a lesson that is not a free preview and is not drip-locked for
\* the requester, the lesson endpoints show the playback id, and the lesson
\* detail answers 200, if and only if the requester is authenticated and
\* holds an active or trialing subscription to the lesson's course.
C1_SubscriptionDecides ==
  /\ IsLessonData =>
       \A it \in response.items :
         (~Lesson[it.lesson].is_free_preview
            /\ ~DripLockedFor(response.who, it.lesson))
           => ((it.mux_playback_id # NULL)
                 <=> Subscribed(response.who, Lesson[it.lesson].course))
  /\ (/\ response.op = "lesson_detail"
      /\ ~Lesson[response.lesson].is_free_preview
      /\ ~DripLockedFor(response.who, response.lesson))
       => ((response.status = 200)
             <=> Subscribed(response.who, Lesson[response.lesson].course))

\* C1 witness: a trialing subscriber opens the paid lesson l1 after its
\* unlock date and receives its playback id, while a subscription of the
\* other user to the same course is cancelled.
C1_Witness ==
  /\ response.op = "lesson_detail" /\ response.status = 200
  /\ response.who = "u1" /\ response.lesson = "l1"
  /\ subs[<<"u1", "c1">>] = "trialing"
  /\ subs[<<"u2", "c1">>] = "cancelled"
  /\ now >= DripDate
  /\ \E it \in response.items : it.mux_playback_id = "pb-l1"

\* C2: a subscription to another course never opens a non-preview lesson:
\* without an active or trialing subscription to the lesson's own course
\* the identifiers are withheld and the lesson detail does not answer 200,
\* whatever the requester's other subscriptions are.
C2_OtherCourseNeverGrants ==
  /\ IsLessonData =>
       \A it \in response.items :
         (~Lesson[it.lesson].is_free_preview
            /\ ~Subscribed(response.who, Lesson[it.lesson].course))
           => Withheld(it)
  /\ (/\ response.op = "lesson_detail"
      /\ ~Lesson[response.lesson].is_free_preview
      /\ ~Subscribed(response.who, Lesson[response.lesson].course))
       => response.status # 200

\* C2 witness: u1 holds an active subscription to c1 and none to c2, and is
\* refused the lesson l3 of c2.
C2_Witness ==
  /\ response.op = "lesson_detail" /\ response.status = 403
  /\ response.who = "u1" /\ response.lesson = "l3"
  /\ subs[<<"u1", "c1">>] = "active"
  /\ subs[<<"u1", "c2">>] = "none"

C4_WitnessUnlocked ==
  /\ response.op = "lesson_detail" /\ response.status = 200
  /\ response.who = "u1" /\ response.lesson = "l1"
  /\ now < DripDate /\ <<"u1", "l1">> \in unlocks
  /\ \E it \in response.items : it.mux_playback_id # NULL

\* C5: no response of an endpoint that returns lesson data (lesson detail,
\* course detail, course lessons, recently_watched) carries a playback id
\* or a video URL of a lesson the requester is denied.
C5_NoLeakWhenDenied ==
  /\ IsLessonData =>
       \A it \in response.items :
         Denied(response.who, it.lesson) => Withheld(it)
  /\ response.op = "recently_watched" =>
       \A it \in response.items :
         Denied(response.who, it.lesson_id) => it.mux_playback_id = NULL

\* C5, the part that holds: the lesson representations of the lesson
\* detail, course detail and course lessons endpoints withhold the
\* identifiers of a denied lesson.
C5_SerializerWithholds ==
  IsLessonData =>
    \A it \in response.items : Denied(response.who, it.lesson) => Withheld(it)

\* C6: a playback id that is returned for a lesson is a signed credential
\* different from the raw id when a signing key is configured, and the raw
\* id when none is.
C6_SignedWhenKeyConfigured ==
  IsLessonData =>
    \A it \in response.items :
      it.mux_playback_id # NULL =>
        IF signingKey
          THEN /\ it.mux_playback_id # Lesson[it.lesson].mux_playback_id
               /\ it.mux_playback_id =
                    get_playback_token(Lesson[it.lesson].mux_playback_id,
                                       ExpirationSeconds)
          ELSE it.mux_playback_id = Lesson[it.lesson].mux_playback_id

\* C7: the table holds at most one LessonProgress row per (user, lesson),
\* and when mark_complete has answered there is exactly one row for its
\* (user, lesson), completed, whose watch_time_seconds is the value of this
\* call.
C7_MarkCompleteUpsert ==
  /\ \A u \in Users, l \in Lessons :
       Cardinality({p \in progress : p.user = u /\ p.lesson = l}) <= 1
  /\ (response.op = "mark_complete" /\ response.status = 200) =>
       LET rows == {p \in progress : /\ p.user = response.who
                                     /\ p.lesson = response.lesson}
       IN  /\ Cardinality(rows) = 1
           /\ \A p \in rows :
                /\ p.is_completed
                /\ p.watch_time_seconds = response.watch_time_input
           /\ response.is_completed
           /\ response.watch_time_seconds = response.watch_time_input

\* C7 witness: mark_complete with watch time 0 on a lesson that already had
\* a row (the call updated it) leaves the row at 0.
C7_Witness ==
  /\ response.op = "mark_complete" /\ response.status = 200
  /\ ~response.created
  /\ response.watch_time_input = 0
  /\ \E p \in progress :
       /\ p.user = response.who /\ p.lesson = response.lesson
       /\ p.watch_time_seconds = 0 /\ p.is_completed

\* C8: course_progress reports exactly the courses the user holds an active
\* or trialing subscription to, with total_lessons the number of lessons of
\* the course and completed_lessons the number of them the user has
\* completed, whatever rows other users have; completed_lessons <=
\* total_lessons, and a course without lessons reports 0 percent.
C8_CourseProgressCounts ==
  (response.op = "course_progress" /\ response.status = 200) =>
    /\ {it.course_id : it \in response.items}
         = {c \in Courses : Subscribed(response.who, c)}
    /\ \A it \in response.items :
         /\ it.total_lessons = Cardinality(LessonsOf(it.course_id))
         /\ it.completed_lessons =
              Cardinality({l \in LessonsOf(it.course_id) :
                 \E p \in progress : /\ p.user = response.who
                                     /\ p.lesson = l /\ p.is_completed})
         /\ it.completed_lessons <= it.total_lessons
         /\ it.total_lessons = 0 => it.completion_percentage = 0

\* C8, the part that holds: the reported courses are the subscribed ones,
\* completed_lessons is the user's own count, and an empty course reports
\* 0 percent.
C8_CompletedAndCourses ==
  (response.op = "course_progress" /\ response.status = 200) =>
    /\ {it.course_id : it \in response.items}
         = {c \in Courses : Subscribed(response.who, c)}
    /\ \A it \in response.items :
         /\ it.completed_lessons =
              Cardinality({l \in LessonsOf(it.course_id) :
                 \E p \in progress : /\ p.user = response.who
                                     /\ p.lesson = l /\ p.is_completed})
         /\ it.total_lessons = 0 => it.completion_percentage = 0

\* The metrics of the badge engine for a user, on the current tables.
Metrics(u) ==
  <<completed_lessons_count(progress, u), completed_courses_count(progress, u),
    total_published_courses, comment_count(u)>>

IsBadgeCheck(r) == r.op = "mark_complete" /\ r.status = 200

\* C9: no step removes a UserBadge row, whatever happens to the metrics; a
\* badge check reports exactly the rows it creates; and a badge check that
\* follows a badge check of the same user with the metrics unchanged
\* reports no badge.
C9_BadgesMonotonic ==
  [][/\ userBadges \subseteq userBadges'
     /\ \A u \in Users :
          (IsBadgeCheck(response') /\ response'.who = u) =>
            /\ response'.newly_earned_badges = BadgesOf(u)' \ BadgesOf(u)
            /\ (/\ IsBadgeCheck(response) /\ response.who = u
                /\ Metrics(u)' = Metrics(u))
                 => response'.newly_earned_badges = {}]_vars

\* C9 witness: the user holds the comment badge although the comment is
\* deleted, and a repeated badge check has reported no new badge.
C9_Witness ==
  /\ comments["u1"] = 0
  /\ "Conversation Starter" \in BadgesOf("u1")
  /\ "Completionist" \in BadgesOf("u1")
  /\ IsBadgeCheck(response) /\ ~response.created
  /\ response.newly_earned_badges = {}

\* C10: at most one ReferralCredit row per referral, in every state of the
\* interleaved checkout handlers.
C10_OneCreditPerReferral ==
  \A i \in DOMAIN referrals :
    Cardinality({x \in credits : x.referral = i}) <= 1

\* C10 witness: two checkout handlers of the same referee work on the same
\* referral; one has passed its lookup and is about to insert the credit
\* that the other has already inserted.
C10_Witness ==
  \E k1, k2 \in CheckoutJobs :
    /\ k1 # k2
    /\ Job(k1).pc = "credit_create" /\ Job(k2).pc = "reward"
    /\ Job(k1).id = Job(k2).id
    /\ \E x \in credits : x.referral = Job(k1).id

\* No checkout request is in flight.
Quiescent == \A k \in DOMAIN jobs : jobs[k].pc = "idle"

HasSubscribed(u) == \E c \in Courses : subs[<<u, c>>] # "none"
CreditsOf(i) == {x \in credits : x.referral = i}
FraudChecksOf(i) == {f \in fraudChecks : f.referral = i}

\* C11: after a registration with a valid referral code, and before the
\* user subscribes, a referral of the user with that code and status
\* signed_up exists; once the user has subscribed and the checkout requests
\* have finished, the referral has one fraud check and is rewarded, with
\* exactly one credit of 10 for the referrer that expires 365 days after
\* it was earned, exactly when the stored score is below 20; with a score
\* of 20..50 the check is pending, above 50 rejected, and in both cases
\* the referral is converted and has no credit.
C11_ReferralFlow ==
  /\ (/\ response.op = "register"
      /\ response.referral_code # NULL
      /\ OwnerOf(response.referral_code) # NULL
      /\ ~HasSubscribed(response.who))
       => \E i \in DOMAIN referrals :
            /\ referrals[i].referee = response.who
            /\ referrals[i].code_used = response.referral_code
            /\ referrals[i].referrer = OwnerOf(response.referral_code)
            /\ referrals[i].status = "signed_up"
  /\ Quiescent =>
       \A i \in DOMAIN referrals :
         (referrals[i].referee # NULL /\ HasSubscribed(referrals[i].referee))
           => /\ Cardinality(FraudChecksOf(i)) = 1
              /\ referrals[i].first_subscription_at # None
              /\ \A f \in FraudChecksOf(i) :
                   IF f.fraud_score < ApproveBelow
                     THEN /\ f.status = "approved"
                          /\ referrals[i].status = "rewarded"
                          /\ Cardinality(CreditsOf(i)) = 1
                          /\ \A x \in CreditsOf(i) :
                               /\ x.user = referrals[i].referrer
                               /\ x.amount = CreditAmount
                               /\ x.expires_at = x.earned_at + CreditDays
                     ELSE /\ f.status = IF f.fraud_score > RejectAbove
                                          THEN "rejected" ELSE "pending"
                          /\ referrals[i].status = "converted"
                          /\ CreditsOf(i) = {}

\* C11 witness: the referee u2 registered with the code of u1, subscribed,
\* and the finished checkout left the referral rewarded with a credit for
\* u1.
C11_Witness ==
  /\ Quiescent
  /\ \E i \in DOMAIN referrals :
       /\ referrals[i].referee = "u2" /\ referrals[i].status = "rewarded"
       /\ \E x \in credits : x.referral = i /\ x.user = "u1"

\* C11 witness of the review: a finished checkout left the referral
\* converted with a pending fraud check of score 30 or 40 and no credit.
C11_WitnessPending ==
  /\ Quiescent
  /\ \E i \in DOMAIN referrals :
       /\ referrals[i].status = "converted"
       /\ \E f \in fraudChecks :
            f.referral = i /\ f.status = "pending" /\ f.fraud_score >= ApproveBelow
       /\ CreditsOf(i) = {}

\* C11 witness of the rejection: score above 50, referral converted.
C11_WitnessRejected ==
  /\ Quiescent
  /\ \E i \in DOMAIN referrals :
       /\ referrals[i].status = "converted"
       /\ \E f \in fraudChecks :
            f.referral = i /\ f.status = "rejected" /\ f.fraud_score > RejectAbove

\* The three fraud signals of referral i, stated on the tables.
SharesIp(i) ==
  /\ referrals[i].ip_address # NULL
  /\ \E j \in DOMAIN referrals :
       /\ j # i
       /\ referrals[j].code_used = referrals[i].code_used
       /\ referrals[j].ip_address = referrals[i].ip_address
ManyRecent(i) ==
  Cardinality({j \in DOMAIN referrals :
     /\ referrals[j].referrer = referrals[i].referrer
     /\ referrals[j].created_at >= now - 1}) > 5
Disposable(i) ==
  /\ referrals[i].referee # NULL
  /\ email[referrals[i].referee] \in
       {"tempmail.com", "guerrillamail.com", "mailinator.com",
        "10minutemail.com"}
Points(b, n) == IF b THEN n ELSE 0

\* C12: the score calculate_fraud_score returns for a referral is 30 for a
\* shared IP plus 25 for more than 5 recent referrals of the referrer plus
\* 40 for a disposable e-mail domain, at most 100 and at least 0; and for
\* all combinations of signals, a combination with more signals on has a
\* score that is not smaller.
C12_FraudScore ==
  /\ \A k \in DOMAIN jobs :
       jobs[k].pc = "review" =>
         /\ jobs[k].score \in 0..100
         /\ LET sum == Points(SharesIp(jobs[k].id), 30)
                         + Points(ManyRecent(jobs[k].id), 25)
                         + Points(Disposable(jobs[k].id), 40)
            IN  jobs[k].score = IF sum > 100 THEN 100 ELSE sum
  /\ \A a, b, c, x, y, z \in BOOLEAN :
       ((a => x) /\ (b => y) /\ (c => z))
         => /\ FraudScore(a, b, c) <= FraudScore(x, y, z)
            /\ FraudScore(x, y, z) \in 0..100

\* C12 witness: all three signals fire and the computed score is 95.
C12_Witness ==
  /\ jobs[ScoreJob].pc = "review"
  /\ jobs[ScoreJob].score = 95
  /\ SharesIp(1) /\ ManyRecent(1) /\ Disposable(1)

FailuresOf(C, u) == cache_get(C, _get_user_key(u), 0)
LockoutLeft(C, u) == C[_get_lockout_key(u)].ttl

Rank(status) ==
  CASE status = "clicked" -> 0
    [] status = "signed_up" -> 1
    [] status = "converted" -> 2
    [] status = "rewarded" -> 3

\* C14: no step of a click, a registration or a subscription activation,
\* in any interleaving, moves the status of a Referral row backwards in
\* clicked, signed_up, converted, rewarded.
C14_StatusForward ==
  [][\A i \in DOMAIN referrals :
       Rank(referrals'[i].status) >= Rank(referrals[i].status)]_vars

\* C15: for a user with a confirmed TOTP device the password step leaves
\* the authenticated user of the session as it was and stores the pending
\* marker; a session of such a user begins only in a verify-login step
\* whose session held the marker of that user and whose code is the
\* device's current code or a backup code that the step uses up; a
\* verify-login step without marker is answered 400 and changes nothing;
\* a successful verify-login step leaves no marker.
C15_TwoFactorLogin ==
  [][\A c \in Clients :
       /\ \A u \in Users :
            /\ (/\ response'.op = "login" /\ response'.client = c
                /\ response'.who = u /\ response'.status = 200
                /\ totp[u] = "confirmed")
                 => /\ session'[c].user = session[c].user
                    /\ session'[c].pending_2fa_user_id = u
                    /\ response'.requires_2fa
            /\ (/\ totp[u] = "confirmed"
                /\ session'[c].user = u /\ session[c].user # u)
                 => /\ response'.op = "verify_login"
                    /\ session[c].pending_2fa_user_id = u
                    /\ \/ response'.token = "totp-" \o u
                       \/ /\ response'.token \in staticTokens[u]
                          /\ response'.token \notin staticTokens'[u]
                    /\ session'[c].pending_2fa_user_id = NULL
       /\ (/\ response'.op = "verify_login" /\ response'.client = c
           /\ session[c].pending_2fa_user_id = NULL)
            => /\ response'.status = 400
               /\ session' = session /\ cache' = cache
       /\ (/\ response'.op = "verify_login" /\ response'.client = c
           /\ response'.status = 200)
            => /\ session'[c].pending_2fa_user_id = NULL
               /\ session'[c].pending_2fa_username = NULL]_vars

\* C15 witness: the session of a user with a confirmed device was
\* established by verify-login with a backup code, which is used up.
C15_Witness ==
  /\ response.op = "verify_login" /\ response.status = 200
  /\ response.method = "backup"
  /\ totp["u1"] = "confirmed"
  /\ session["s1"].user = "u1"
  /\ session["s1"].pending_2fa_user_id = NULL
  /\ response.token \notin staticTokens["u1"]

\* C15 witness: after the right password the session holds only the marker.
C15_WitnessPending ==
  /\ response.op = "login" /\ response.status = 200 /\ response.requires_2fa
  /\ session["s1"].user = NULL
  /\ session["s1"].pending_2fa_user_id = "u1"

\* C15 witness: verify-login without marker is answered 400.
C15_WitnessNoMarker ==
  /\ response.op = "verify_login" /\ response.status = 400
  /\ response.token = "totp-u1" /\ totp["u1"] = "confirmed"
  /\ session["s1"].pending_2fa_user_id = NULL
  /\ session["s1"].user = NULL

ReviewsOf(R, u, c) == {r \in R : r.user = u /\ r.course = c}

\* C16: a review request is answered 201 only for a course with at least
\* one lesson of which the user has completed at least half and to which
\* the user holds an active or trialing subscription, and then adds the
\* one row of (user, course); every other review request leaves the
\* CourseReview table and the cached total_reviews and average_rating of
\* every course as they were; no (user, course) ever has two review rows.
C16_ReviewGate ==
  [][/\ \A u \in Users, c \in Courses :
          Cardinality(ReviewsOf(reviews', u, c)) <= 1
     /\ response'.op = "create_review" =>
          IF response'.status = 201
            THEN \E u \in Users, c \in Courses :
                   /\ response'.who = u /\ response'.course_id = c
                   /\ Cardinality(LessonsOf(c)) >= 1
                   /\ 2 * Cardinality({l \in LessonsOf(c) :
                            \E p \in progress :
                              p.user = u /\ p.lesson = l /\ p.is_completed})
                        >= Cardinality(LessonsOf(c))
                   /\ subs[<<u, c>>] \in {"active", "trialing"}
                   /\ ReviewsOf(reviews, u, c) = {}
                   /\ \E row \in reviews' :
                        /\ reviews' = reviews \cup {row}
                        /\ row.user = u /\ row.course = c
                        /\ row.rating = response'.rating
            ELSE reviews' = reviews /\ ratingCache' = ratingCache]_vars

\* C16 witness: a user who completed one of the two lessons and holds a
\* trialing subscription has reviewed the course as its second reviewer.
C16_Witness ==
  /\ response.op = "create_review" /\ response.status = 201
  /\ response.who = "u2" /\ response.course_id = "c1"
  /\ subs[<<"u2", "c1">>] = "trialing"
  /\ Cardinality(CompletedIn(progress, "u2", "c1")) = 1
  /\ ratingCache["c1"].total_reviews = 2
  /\ ratingCache["c1"].average_rating = Some(250)

\* C16 witness: a second review of the same user for the same course is
\* rejected and the cached rating stays.
C16_WitnessRejected ==
  /\ response.op = "create_review" /\ response.status = 500
  /\ response.who = "u1" /\ response.course_id = "c1" /\ response.rating = 1
  /\ subs[<<"u1", "c1">>] = "active"
  /\ \E r \in reviews : r.user = "u1" /\ r.course = "c1" /\ r.rating = 4
  /\ ratingCache["c1"] = [total_reviews |-> 1, average_rating |-> Some(400)]

\* C17: the detail of a lesson that is drip-locked for the requester (not
\* a free preview, unlock date in the future, no LessonUnlock row) is
\* answered 403, the answer an unsubscribed user gets, also when the
\* requester holds an active subscription to the course; it is never
\* answered 200.
C17_DripLockedForbidden ==
  (/\ response.op = "lesson_detail" /\ response.who \in Users
   /\ Lesson[response.lesson].course \in published
   /\ ~Lesson[response.lesson].is_free_preview
   /\ DripLockedFor(response.who, response.lesson))
    => response.status = 403

ProgressRowsOf(P, u, l) == {p \in P : p.user = u /\ p.lesson = l}

\* C18: a successful update_watch_time request of user u for lesson l with
\* watch time t leaves exactly one row of (u, l), with watch_time_seconds
\* = t; is_completed and completed_at of the row are those of the row
\* before the request, and False and empty if there was none; the rows of
\* every other (user, lesson) are the same as before.
C18_WatchTimeFrame ==
  [][(response'.op = "update_watch_time" /\ response'.status = 200) =>
       \E u \in Users, l \in Lessons :
         /\ response'.who = u /\ response'.lesson = l
         /\ \E new \in progress' :
              /\ ProgressRowsOf(progress', u, l) = {new}
              /\ new.watch_time_seconds = response'.watch_time_input
              /\ IF ProgressRowsOf(progress, u, l) = {}
                   THEN ~new.is_completed /\ new.completed_at = None
                   ELSE \A old \in ProgressRowsOf(progress, u, l) :
                          /\ new.is_completed = old.is_completed
                          /\ new.completed_at = old.completed_at
         /\ progress' \ ProgressRowsOf(progress', u, l)
              = progress \ ProgressRowsOf(progress, u, l)]_vars

\* C18 witness: a lesson completed on day 0 with watch time 0 has its watch
\* time updated to 1 on day 1 and is still completed on day 0.
C18_Witness ==
  /\ response.op = "update_watch_time" /\ response.status = 200
  /\ response.who = "u1" /\ response.watch_time_input = 1
  /\ now = 1
  /\ \E p \in progress :
       /\ p.user = "u1" /\ p.lesson = response.lesson
       /\ p.is_completed /\ p.completed_at = Some(0)
       /\ p.watch_time_seconds = 1 /\ p.last_watched_at = 1

\* C18 witness: a row created by update_watch_time is not completed.
C18_WitnessCreated ==
  /\ response.op = "update_watch_time" /\ response.status = 200
  /\ ~response.is_completed
  /\ \E p \in progress :
       /\ p.user = "u1" /\ p.lesson = response.lesson
       /\ ~p.is_completed /\ p.completed_at = None
       /\ p.watch_time_seconds = 1

Busy(w) == workers[w].pc # "idle"
\* The step adds badge b to the badges worker w reports for user u.
Reports(w, u, b) ==
  /\ Busy(w) /\ workers'[w].pc # "idle"
  /\ workers[w].user = u
  /\ b \in workers'[w].awarded \ workers[w].awarded

\* C20: no (user, badge) has two UserBadge rows; a row is inserted by
\* exactly one worker, which reports the badge as newly awarded, and no
\* worker reports a badge whose row it did not insert, so that of two
\* badge checks of a user that run at the same time and both find a badge
\* earned never both report it; an INSERT that loses against the other
\* worker's row does not fail the request.
C20_OneBadgeRow ==
  [][/\ \A u \in Users, b \in BadgeNames :
          Cardinality(BadgeRows(userBadges', u, b)) <= 1
     /\ \A r \in userBadges' \ userBadges :
          Cardinality({w \in Workers : Reports(w, r.user, r.badge)}) = 1
     /\ \A w \in Workers, u \in Users, b \in BadgeNames :
          Reports(w, u, b) =>
            BadgeRows(userBadges, u, b) = {}
              /\ BadgeRows(userBadges', u, b) # {}
     /\ \A w, v \in Workers :
          (w # v /\ Busy(w) /\ Busy(v) /\ workers[w].user = workers[v].user)
            => workers[w].awarded \cap workers[v].awarded = {}
     /\ \A w \in Workers :
          (Busy(w) /\ workers'[w].pc = "idle") =>
            /\ response'.status = 200
            /\ response'.newly_earned_badges = workers[w].awarded]_vars

\* C20 witness: both workers found First Steps earned at the same time; one
\* inserted the row and reports the badge, the other lost the INSERT, read
\* the row and reports nothing; both are about to answer.
C20_Witness ==
  /\ workers["w1"].pc = "respond" /\ workers["w2"].pc = "respond"
  /\ workers["w1"].user = workers["w2"].user
  /\ "First Steps" \in workers["w1"].found \cap workers["w2"].found
  /\ "First Steps" \in workers["w1"].awarded
  /\ "First Steps" \notin workers["w2"].awarded
  /\ workers["w2"].collided
  /\ Cardinality(BadgeRows(userBadges, "u1", "First Steps")) = 1

\* The criterion of badge b for user u, stated on the tables.
CriterionHolds(u, b) ==
  LET done == Cardinality({l \in Lessons :
                 \E p \in progress :
                   p.user = u /\ p.lesson = l /\ p.is_completed})
      full == {c \in published :
                 /\ \E l \in Lessons : Lesson[l].course = c
                 /\ \A l \in Lessons : Lesson[l].course = c =>
                      \E p \in progress :
                        p.user = u /\ p.lesson = l /\ p.is_completed}
  IN  CASE b.category = "starter" ->
             b.requirement_value # None /\ b.requirement_value[1] <= done
        [] b.category = "engagement" ->
             b.requirement_value # None /\ b.requirement_value[1] <= comments[u]
        [] b.name = "Course Complete" -> full # {}
        [] b.name = "Completionist" ->
             /\ Cardinality(published) > 0
             /\ Cardinality(full) >= Cardinality(published)
        [] OTHER -> FALSE

\* C21: when check_and_award_badges has returned (the badge check of a
\* successful mark_complete), the user holds every starter badge whose
\* requirement is at most the number of completed lessons, every engagement
\* badge whose requirement is at most the number of comments, Course
\* Complete if a published course with lessons is fully completed, and
\* Completionist if the fully completed published courses are at least as
\* many as the published courses and there is one; and every UserBadge row
\* the call creates belongs to the user and to a badge whose criterion
\* holds.
C21_BadgeCriteria ==
  [][\A u \in Users :
       (IsBadgeCheck(response') /\ response'.who = u) =>
         /\ \A b \in Badge :
              CriterionHolds(u, b)' =>
                \E r \in userBadges' : r.user = u /\ r.badge = b.name
         /\ \A r \in userBadges' \ userBadges :
              /\ r.user = u
              /\ \E b \in Badge : b.name = r.badge /\ CriterionHolds(u, b)']_vars

\* C21 witness: a badge check has just created the starter badge of one
\* lesson and both completion badges, the user has a comment and its badge,
\* and does not hold the starter badge of five lessons.
C21_Witness ==
  /\ IsBadgeCheck(response) /\ response.who = "u1"
  /\ "Completionist" \in response.newly_earned_badges
  /\ {"First Steps", "Course Complete", "Conversation Starter"}
       \subseteq BadgesOf("u1")
  /\ "Getting Started" \notin BadgesOf("u1")
  /\ comments["u1"] = 1

\* C21 witness of the boundary: one completed lesson, requirement 1.
C21_WitnessBoundary ==
  /\ IsBadgeCheck(response) /\ response.who = "u1"
  /\ response.newly_earned_badges = {"First Steps"}
  /\ Cardinality({p \in progress : p.user = "u1" /\ p.is_completed}) = 1

C22_WitnessRejected ==
  /\ Quiescent
  /\ \E i \in DOMAIN referrals :
       /\ \E f \in FraudChecksOf(i) : f.status = "rejected"
       /\ CreditsOf(i) = {}
       /\ \A c \in LessonCourses : subs[<<referrals[i].referee, c>>] = "active"

\* Referral i is held by a checkout request in flight (selected and not
\* yet finished).
HeldBy(J, i) == \E k \in DOMAIN J : "id" \in DOMAIN J[k] /\ J[k].id = i

\* Referral i has been moved to converted, its fraud check was classified
\* pending or rejected (a stored score of 20 or more), and the request that
\* did it has finished.
ConvertedUnrewarded(i) ==
  /\ referrals[i].status = "converted"
  /\ \E f \in FraudChecksOf(i) : f.fraud_score >= ApproveBelow
  /\ ~HeldBy(jobs, i)

C28_WitnessDone ==
  \E i \in DOMAIN referrals :
    /\ ConvertedUnrewarded(i) /\ Quiescent
    /\ \E f \in FraudChecksOf(i) :
         f.status = "approved" /\ f.reviewed_by = AdminUser
    /\ \A c \in LessonCourses : subs[<<referrals[i].referee, c>>] = "active"
    /\ credits = {}

\* The referrals of which u is the referee.
ReferralsOfReferee(R, u) == {i \in DOMAIN R : R[i].referee = u}

\* C26: no step changes the referee of a referral whose referee is set,
\* whatever the interleaving of the registrations; and when a registration
\* with a valid referral code answers, the new user is the referee of
\* exactly one referral, which has status signed_up.
C26_AttributeSignup ==
  [][/\ \A i \in DOMAIN referrals :
          referrals[i].referee # NULL
            => referrals'[i].referee = referrals[i].referee
     /\ \A w \in Workers :
          (/\ workers[w].pc = "reg_respond" /\ workers'[w].pc = "idle"
           /\ workers[w].code # NULL /\ OwnerOf(workers[w].code) # NULL)
            => /\ Cardinality(ReferralsOfReferee(referrals', workers[w].user)) = 1
               /\ \A i \in ReferralsOfReferee(referrals', workers[w].user) :
                    referrals'[i].status = "signed_up"]_vars

C25_WitnessPending ==
  /\ response.op = "login" /\ response.status = 200 /\ response.requires_2fa
  /\ response.who = "u2" /\ response.ip = "ip2"
  /\ session["s1"].pending_2fa_user_id = "u2"
  /\ ~cache_has(cache, <<"login_attempts_user", "u2">>)
  /\ cache[<<"login_attempts_ip", "ip1">>].value = MAX_ATTEMPTS

\* C29: in no step does a client's session become a session of a user whose
\* username is locked out when the step begins.
C29_NoSessionWhileLocked ==
  [][\A u \in Users, c \in Clients :
       (LockoutLeft(cache, u) > 0 /\ session[c].user # u)
         => session'[c].user # u]_vars

\* C30: the password step of a user with a confirmed TOTP device, which only
\* stores the pending marker, leaves the failure counters and the lockout of
\* the username as they are.
C30_PendingKeepsCounters ==
  [][\A u \in Users :
       (/\ response'.op = "login" /\ response'.status = 200
        /\ response'.requires_2fa /\ response'.who = u)
         => /\ cache'[<<"login_attempts_user", u>>]
                 = cache[<<"login_attempts_user", u>>]
            /\ cache'[<<"account_lockout", u>>]
                 = cache[<<"account_lockout", u>>]]_vars

\* The failed login requests that have been answered 401, for username u,
\* and those among them that came from address ip.
FailedFor(u) ==
  {w \in Workers : /\ workers[w].pc = "answered" /\ workers[w].status = 401
                   /\ workers[w].username = u}
FailedFrom(u, ip) == {w \in FailedFor(u) : workers[w].ip = ip}
Recording == \E w \in Workers : workers[w].pc \notin {"idle", "answered"}

\* C24: when the failed requests have been answered, in any interleaving,
\* the counter of the username has grown by the number of failed requests
\* for it and the counter of each address by the number of failed requests
\* from it, and the lockout of the username is set when its counter has
\* reached 15.
C24_CountersExact ==
  ~Recording =>
    \E n \in EarlierFailed :
      /\ FailuresOf(cache, "u1") = n + Cardinality(FailedFor("u1"))
      /\ cache_get(cache, _get_ip_key("ip1"), 0)
           = n + Cardinality(FailedFrom("u1", "ip1"))
      /\ cache_get(cache, _get_ip_key("ip2"), 0)
           = Cardinality(FailedFrom("u1", "ip2"))
      /\ FailuresOf(cache, "u1") >= MAX_ATTEMPTS => LockoutLeft(cache, "u1") > 0

\* C27: once the checkout of the referee has scored and reviewed the fraud
\* check, the stored flags agree with the stored score: fraud_score is the
\* sum of +30, +25 and +40 for exactly the flags that are true, so that a
\* check with a positive score has a flag set, the save of score and status
\* having kept the flags set during scoring.
C27_FlagsAgreeWithScore ==
  Job(ScoreJob).pc \notin {"score", "review"} =>
    \A f \in fraudChecks :
      /\ f.fraud_score
           = FraudScore(f.same_ip, f.rapid_signup, f.disposable_email)
      /\ f.fraud_score > 0
           => (f.same_ip \/ f.rapid_signup \/ f.disposable_email)

\* The checkouts whose receiver failed, with the statement that raised.
Failed(k) == Job(k).pc = "done" /\ "error" \in DOMAIN Job(k)

C23_WitnessScore ==
  \E k \in CheckoutJobs :
    /\ Job(k).pc = "idle" /\ subs[k] = "active"
    /\ response = [op |-> "webhook", status |-> 200]
    /\ \E f \in fraudChecks :
         /\ referrals[f.referral].referee = k[1]
         /\ referrals[f.referral].status = "converted"
         /\ f.status = "pending" /\ f.fraud_score = 0
         /\ ~(f.same_ip \/ f.rapid_signup \/ f.disposable_email)

====
